---- MODULE Spec2Model ----
(***************************************************************************)
(* gh-sql: the storage adapter (src/src/storage.rs) that exposes a remote  *)
(* project as the tables items / options / iterations of a SQL engine.     *)
(*                                                                         *)
(* State: the remote project, the adapter's cache slot and its mutex, the  *)
(* position of every reader (fetch_schema / scan_data take &self and may   *)
(* be called from several threads) and of the writer (update_data and      *)
(* delete_data take self by value, so a write owns the adapter alone).     *)
(* Beside it: one call of gh::graphql, which runs the `gh` process for a   *)
(* request, and the read loop of the interactive prompt.                   *)
(***************************************************************************)
EXTENDS Integers, Sequences, FiniteSets, TLC

VARIABLES remote, cache, lock, rd, wr, gh, prompt

\* The adapter with its remote, and what stands in front of and behind it:
\* one gh::graphql call (src/src/gh.rs) and the interactive prompt
\* (src/src/prompt.rs).
store == <<remote, cache, lock, rd, wr>>
front == <<gh, prompt>>
vars == <<remote, cache, lock, rd, wr, gh, prompt>>

----------------------------------------------------------------------------
(* Bounds of the model.                                                    *)

\* Pages one population may consume before the remote must end the listing.
MaxPages == 2
\* Rows (update_data) or keys (delete_data) in one batch.
MaxRows == 2

\* const RESERVED_COLS: usize = 6
RESERVED_COLS == 6

Readers == {"r1", "r2"}

----------------------------------------------------------------------------
(* Option<T>                                                               *)

None == [some |-> FALSE]
Some(x) == [some |-> TRUE, val |-> x]

----------------------------------------------------------------------------
(* gluesql Value, as far as the adapter looks at it. Every value is a      *)
(* record of a type tag and a text; numbers are written as decimals        *)
(* (I64 5 is "5", F64 5.0 is "5.0").                                       *)

Null == [t |-> "Null", v |-> ""]
Str(s) == [t |-> "Str", v |-> s]
I64(s) == [t |-> "I64", v |-> s]
F64(s) == [t |-> "F64", v |-> s]
Date(s) == [t |-> "Date", v |-> s]
List(s) == [t |-> "List", v |-> s]

\* Value::is_null
IsNull(v) == v.t = "Null"

\* The decimal texts the model uses, each with its f64 rendering.
F64Text == [s \in {"5", "5.0", "7", "7.0"} |->
              CASE s \in {"5", "5.0"} -> "5.0"
                [] s \in {"7", "7.0"} -> "7.0"]

\* f64::to_string: a whole f64 prints without a fraction.
F64Display == [s \in {"5.0", "7.0"} |-> IF s = "5.0" THEN "5" ELSE "7"]

\* Value::cast(&DataType::Float) followed by f64::try_from: None when the
\* value has no floating-point reading.
CastFloat(v) ==
    CASE v.t = "F64" -> Some(v.v)
      [] v.t = "I64" -> Some(F64Text[v.v])
      [] v.t = "Str" /\ v.v \in DOMAIN F64Text -> Some(F64Text[v.v])
      [] OTHER -> None

\* NaiveDate::format("%Y-%m-%d") of the native dates the model uses (a
\* native date is written year/month/day).
FormatYmd == [d \in {"2024/3/1"} |-> "2024-03-01"]

\* String::from(&Value)
ToStr(v) ==
    CASE v.t = "Null" -> "NULL"
      [] v.t = "F64" -> F64Display[v.v]
      [] v.t = "Date" -> FormatYmd[v.v]
      [] OTHER -> v.v

\* Value::cast(&DataType::Text) followed by String::from
CastText(v) == IF IsNull(v) THEN None ELSE Some(ToStr(v))

\* Value == Value: numbers compare by value across I64 and F64.
ValueEq(a, b) ==
    \/ a = b
    \/ /\ a.t \in {"I64", "F64"}
       /\ b.t \in {"I64", "F64"}
       /\ CastFloat(a) = CastFloat(b)

----------------------------------------------------------------------------
(* Field metadata.                                                         *)

NormalKind(ty) == [k |-> "Normal", ty |-> ty, options |-> <<>>,
                   iterations |-> <<>>, completed_iterations |-> <<>>]
SingleSelectKind(opts) == [k |-> "SingleSelect", ty |-> "SINGLE_SELECT", options |-> opts,
                           iterations |-> <<>>, completed_iterations |-> <<>>]
IterationKind(its, done) == [k |-> "Iteration", ty |-> "ITERATION", options |-> <<>>,
                             iterations |-> its, completed_iterations |-> done]

Field(id, name, kind) == [id |-> id, name |-> name, kind |-> kind]

\* FieldType::as_sql_type
as_sql_type(ty) ==
    CASE ty = "DATE" -> Some("Date")
      [] ty = "NUMBER" -> Some("Float")
      [] ty = "TEXT" -> Some("Text")
      [] ty = "TITLE" -> Some("Text")
      [] OTHER -> None

----------------------------------------------------------------------------
(* The remote project: the nodes the list-fields query returns, and the    *)
(* items the list-items query pages through.                               *)

ProjectId == "P1"

Option1 == [id |-> "o1", name |-> "A"]
Option2 == [id |-> "o2", name |-> "B"]
Option3 == [id |-> "o3", name |-> "A"]

\* One node of the list-fields response (ProjectV2ProjectV2FieldsNodes).
FieldNode(variant, id, name, data_type, kind) ==
    [variant |-> variant, id |-> id, name |-> name, data_type |-> data_type, kind |-> kind]

TitleNode == FieldNode("ProjectV2Field", "fT", "Title", "TITLE", NormalKind("TITLE"))
StatusNode == FieldNode("ProjectV2SingleSelectField", "fS", "Status", "SINGLE_SELECT",
                        SingleSelectKind(<<Option1, Option2, Option3>>))
PointsNode == FieldNode("ProjectV2Field", "fP", "Points", "NUMBER", NormalKind("NUMBER"))

\* The field lists a project of the model may have.
ProjectNodes == { <<TitleNode, PointsNode, StatusNode>> }

\* One field-value entry of an item (ListItemsNodeOnProjectV2ItemsNodesFieldValuesNodes).
FieldValue(fid, variant, val) == [fid |-> fid, variant |-> variant, val |-> val]

IssueContent(repo, number, title, assignees, labels) ==
    Some([variant |-> "Issue", repo |-> repo, number |-> number, title |-> title,
          assignees |-> assignees, labels |-> labels])

Item(id, content, field_values) ==
    [id |-> id, content |-> content, field_values |-> field_values]

InitialItems ==
    << Item("i1", IssueContent("a/b", "1", "T1", "alice", "bug"),
            <<FieldValue("fS", "SingleSelect", Some("B"))>>),
       Item("i2", None,
            <<FieldValue("fS", "SingleSelect", Some("A")),
              FieldValue("fP", "Number", Some("7.0"))>>) >>

----------------------------------------------------------------------------
(* list_fields: the cached fields of a list-fields response.               *)

reserved_names == {"Title", "Labels", "Milestone", "Assignees",
                   "Linked Pull Requests", "Reviewers", "Repository"}

\* The filter_map closure: a plain field with a reserved name is dropped,
\* every other node becomes a Field.
KeepNode(node) ==
    ~(node.variant = "ProjectV2Field" /\ node.name \in reserved_names)

RECURSIVE list_fields(_)
list_fields(nodes) ==
    IF nodes = <<>> THEN <<>>
    ELSE LET node == Head(nodes)
         IN  IF KeepNode(node)
             THEN <<Field(node.id, node.name, node.kind)>> \o list_fields(Tail(nodes))
             ELSE list_fields(Tail(nodes))

----------------------------------------------------------------------------
(* scan_items, second half: one row per fetched item.                      *)

\* Iterator::position / find: the first index whose element satisfies the
\* test, or 0.
RECURSIVE FirstIndex(_, _, _)
FirstIndex(s, i, hit) ==
    IF i > Len(s) THEN 0
    ELSE IF s[i] \in hit THEN i
    ELSE FirstIndex(s, i + 1, hit)

\* into_row that gives a draft issue no assignees and no labels column.
into_row_DraftBlank(content) ==
    IF content.variant = "DraftIssue"
    THEN <<Null, Null, Null, Null>>
    ELSE <<Str(content.repo), I64(content.number),
           List(content.assignees), List(content.labels)>>

\* IntoQuadRow::into_row: repo, issue number, assignees, labels
into_row(content) ==
    IF content.variant = "DraftIssue"
    THEN <<Null, Null, List(content.assignees), List("")>>
    ELSE <<Str(content.repo), I64(content.number),
           List(content.assignees), List(content.labels)>>

\* as_sql_value of a field-value entry read for a Normal field
as_sql_value(entry) ==
    IF ~entry.val.some THEN None
    ELSE CASE entry.variant = "Number" -> Some(F64(entry.val.val))
           [] entry.variant \in {"Label", "PullRequest", "Reviewer", "User"}
                -> Some(List(entry.val.val))
           [] OTHER -> Some(Str(entry.val.val))

\* FieldColumn that shows "Unknown" for an iteration field without an entry.
FieldColumn_UnknownWhenAbsent(item, field) ==
    LET idx == FirstIndex(item.field_values, 1,
                          {e \in {item.field_values[k] : k \in 1..Len(item.field_values)} :
                              e.fid = field.id})
    IN  IF idx = 0 THEN (IF field.kind.k = "Iteration" THEN Str("Unknown") ELSE Null)
        ELSE LET value == item.field_values[idx]
             IN  CASE field.kind.k = "Normal" ->
                        IF as_sql_value(value).some THEN as_sql_value(value).val ELSE Null
                   [] field.kind.k = "SingleSelect" ->
                        IF value.val.some THEN Str(value.val.val) ELSE Null
                   [] field.kind.k = "Iteration" ->
                        LET all == field.kind.iterations \o field.kind.completed_iterations
                            hit == FirstIndex(all, 1,
                                     {it \in {all[k] : k \in 1..Len(all)} :
                                         value.val.some /\ it.title = value.val.val})
                        IN  IF hit # 0 THEN Str(all[hit].title) ELSE Str("Unknown")

\* FieldColumn that leaves an iteration cell Null when no iteration of the
\* field has the value's title.
FieldColumn_NullWhenUnmatched(item, field) ==
    LET idx == FirstIndex(item.field_values, 1,
                          {e \in {item.field_values[k] : k \in 1..Len(item.field_values)} :
                              e.fid = field.id})
    IN  IF idx = 0 THEN Null
        ELSE LET value == item.field_values[idx]
             IN  CASE field.kind.k = "Normal" ->
                        IF as_sql_value(value).some THEN as_sql_value(value).val ELSE Null
                   [] field.kind.k = "SingleSelect" ->
                        IF value.val.some THEN Str(value.val.val) ELSE Null
                   [] field.kind.k = "Iteration" ->
                        LET all == field.kind.iterations \o field.kind.completed_iterations
                            hit == FirstIndex(all, 1,
                                     {it \in {all[k] : k \in 1..Len(all)} :
                                         value.val.some /\ it.title = value.val.val})
                        IN  IF hit # 0 THEN Str(all[hit].title) ELSE Null

\* The cell of one field of one item (the closure over `fields`).
FieldColumn(item, field) ==
    LET idx == FirstIndex(item.field_values, 1,
                          {e \in {item.field_values[k] : k \in 1..Len(item.field_values)} :
                              e.fid = field.id})
    IN  IF idx = 0 THEN Null
        ELSE LET value == item.field_values[idx]
             IN  CASE field.kind.k = "Normal" ->
                        IF as_sql_value(value).some THEN as_sql_value(value).val ELSE Null
                   [] field.kind.k = "SingleSelect" ->
                        IF value.val.some THEN Str(value.val.val) ELSE Null
                   [] field.kind.k = "Iteration" ->
                        LET all == field.kind.iterations \o field.kind.completed_iterations
                            hit == FirstIndex(all, 1,
                                     {it \in {all[k] : k \in 1..Len(all)} :
                                         value.val.some /\ it.title = value.val.val})
                        IN  IF hit # 0 THEN Str(all[hit].title) ELSE Str("Unknown")

\* ItemRow that lays the field cells out in reverse field order.
ItemRow_Reversed(item, fields) ==
    LET title == IF item.content.some THEN item.content.val.title ELSE ""
        quad == IF item.content.some THEN into_row(item.content.val)
                ELSE <<Null, Null, Null, Null>>
        reserved_columns == <<Str(item.id), quad[1], quad[2], Str(title), quad[3], quad[4]>>
        field_columns ==
            [i \in 1..Len(fields) |-> FieldColumn(item, fields[Len(fields) + 1 - i])]
    IN  [key |-> item.id, row |-> reserved_columns \o field_columns]

\* (key, row) of one item: the six reserved columns, then one cell per field.
ItemRow(item, fields) ==
    LET title == IF item.content.some THEN item.content.val.title ELSE ""
        quad == IF item.content.some THEN into_row(item.content.val)
                ELSE <<Null, Null, Null, Null>>
        reserved_columns == <<Str(item.id), quad[1], quad[2], Str(title), quad[3], quad[4]>>
        field_columns == [i \in 1..Len(fields) |-> FieldColumn(item, fields[i])]
    IN  [key |-> item.id, row |-> reserved_columns \o field_columns]

ItemRows(items, fields) == [i \in 1..Len(items) |-> ItemRow(items[i], fields)]

----------------------------------------------------------------------------
(* Schemas and the two derived tables.                                     *)

ColumnDef(name, data_type, nullable) ==
    [name |-> name, data_type |-> data_type, nullable |-> nullable]

\* items_schema that types a field column by the field's own data type.
items_schema_Typed(c) ==
    LET reserved_column_defs ==
            << ColumnDef("id", "Text", FALSE), ColumnDef("Repository", "Text", FALSE),
               ColumnDef("Issue", "Int", FALSE), ColumnDef("Title", "Text", FALSE),
               ColumnDef("Assignees", "List", FALSE), ColumnDef("Labels", "List", FALSE) >>
        field_column_defs ==
            [i \in 1..Len(c.fields) |->
                ColumnDef(c.fields[i].name,
                          IF as_sql_type(c.fields[i].kind.ty).some
                          THEN as_sql_type(c.fields[i].kind.ty).val ELSE "Text",
                          TRUE)]
    IN  [table_name |-> "items", column_defs |-> reserved_column_defs \o field_column_defs]

\* Cache::items_schema
items_schema(c) ==
    LET reserved_column_defs ==
            << ColumnDef("id", "Text", FALSE), ColumnDef("Repository", "Text", FALSE),
               ColumnDef("Issue", "Int", FALSE), ColumnDef("Title", "Text", FALSE),
               ColumnDef("Assignees", "List", FALSE), ColumnDef("Labels", "List", FALSE) >>
        field_column_defs ==
            [i \in 1..Len(c.fields) |-> ColumnDef(c.fields[i].name, "Text", TRUE)]
    IN  [table_name |-> "items", column_defs |-> reserved_column_defs \o field_column_defs]

options_schema ==
    [table_name |-> "options",
     column_defs |-> << ColumnDef("field_id", "Text", FALSE), ColumnDef("id", "Text", FALSE),
                        ColumnDef("name", "Text", FALSE) >>]

iterations_schema ==
    [table_name |-> "iterations",
     column_defs |-> << ColumnDef("field_id", "Text", FALSE), ColumnDef("id", "Text", FALSE),
                        ColumnDef("title", "Text", FALSE), ColumnDef("start_date", "Text", FALSE),
                        ColumnDef("duration", "Int", FALSE),
                        ColumnDef("is_completed", "Boolean", FALSE) >>]

\* Cache::scan_options
RECURSIVE scan_options(_)
scan_options(fields) ==
    IF fields = <<>> THEN <<>>
    ELSE LET field == Head(fields)
             rows == IF field.kind.k = "SingleSelect"
                     THEN [i \in 1..Len(field.kind.options) |->
                             [key |-> field.kind.options[i].id,
                              row |-> <<Str(field.id), Str(field.kind.options[i].id),
                                        Str(field.kind.options[i].name)>>]]
                     ELSE <<>>
         IN  rows \o scan_options(Tail(fields))

IterationRows(field_id, its, is_completed) ==
    [i \in 1..Len(its) |->
        [key |-> its[i].id,
         row |-> <<Str(field_id), Str(its[i].id), Str(its[i].title),
                   Str(its[i].start_date), I64(its[i].duration),
                   [t |-> "Bool", v |-> is_completed]>>]]

\* scan_iterations that lists the completed iterations of a field first.
RECURSIVE scan_iterations_CompletedFirst(_)
scan_iterations_CompletedFirst(fields) ==
    IF fields = <<>> THEN <<>>
    ELSE LET field == Head(fields)
             rows == IF field.kind.k = "Iteration"
                     THEN IterationRows(field.id, field.kind.completed_iterations, "true")
                          \o IterationRows(field.id, field.kind.iterations, "false")
                     ELSE <<>>
         IN  rows \o scan_iterations_CompletedFirst(Tail(fields))

\* Cache::scan_iterations
RECURSIVE scan_iterations(_)
scan_iterations(fields) ==
    IF fields = <<>> THEN <<>>
    ELSE LET field == Head(fields)
             rows == IF field.kind.k = "Iteration"
                     THEN IterationRows(field.id, field.kind.iterations, "false")
                          \o IterationRows(field.id, field.kind.completed_iterations, "true")
                     ELSE <<>>
         IN  rows \o scan_iterations(Tail(fields))

----------------------------------------------------------------------------
(* The adapter: pub struct ProjectNextStorage { cache: Mutex<Option<Cache>> } *)

\* struct Cache
Cache(project_id, fields, items) ==
    [project_id |-> project_id, fields |-> fields, items |-> items]

NoRet == [kind |-> "", val |-> <<>>]
Ok(val) == [kind |-> "ok", val |-> val]
Err(error, arg) == [kind |-> "err", val |-> [error |-> error, arg |-> arg]]

\* A reader that is in no call.
RdIdle == [pc |-> "idle", op |-> "", table |-> "", project_id |-> "", fields |-> <<>>,
           items |-> <<>>, after |-> None, log |-> <<>>, ncalls |-> 0, ret |-> NoRet]

\* The writer slot when no update_data / delete_data is running.
WrIdle == [pc |-> "idle", op |-> "", table |-> "", rows |-> <<>>, snap |-> None,
           i |-> 1, j |-> 0, calls |-> <<>>, ret |-> NoRet]

TableNames == {"items", "options", "iterations"}

\* No gh::graphql call, no prompt under study.
GhIdle == [pc |-> "idle"]
PromptIdle == [pc |-> "idle"]

\* ProjectNextStorage::new: the slot holds None.
Init ==
    /\ remote \in {[nodes |-> n, items |-> InitialItems] : n \in ProjectNodes}
    /\ cache = None
    /\ lock = ""
    /\ rd = [r \in Readers |-> RdIdle]
    /\ wr = WrIdle
    /\ gh = GhIdle
    /\ prompt = PromptIdle

\* SchemaOf with the `iterations` arm left out of the match.
SchemaOf_NoIterations(c, table_name) ==
    CASE table_name = "items" -> Ok(Some(items_schema(c)))
      [] table_name = "options" -> Ok(Some(options_schema))
      [] OTHER -> Ok(None)

\* What fetch_schema answers from a populated cache.
SchemaOf(c, table_name) ==
    CASE table_name = "items" -> Ok(Some(items_schema(c)))
      [] table_name = "options" -> Ok(Some(options_schema))
      [] table_name = "iterations" -> Ok(Some(iterations_schema))
      [] OTHER -> Ok(None)

\* What scan_data answers from a populated cache.
RowsOf(c, table_name) ==
    CASE table_name = "items" -> Ok(c.items)
      [] table_name = "options" -> Ok(scan_options(c.fields))
      [] table_name = "iterations" -> Ok(scan_iterations(c.fields))

Answer(op, c, table_name) ==
    IF op = "fetch_schema" THEN SchemaOf(c, table_name) ELSE RowsOf(c, table_name)

\* The tables a call may name: the engine scans only tables it got a schema for.
CallTables(op) == IF op = "fetch_schema" THEN TableNames \cup {"other"} ELSE TableNames

\* Handing an answer to the caller touches nothing shared: it is taken
\* before anything else moves.
NoneReturning == wr.pc # "done" /\ \A r \in Readers : rd[r].pc # "done"

\* CanLock with the mutex left out.
CanLock_NoMutex == wr.pc = "idle" /\ NoneReturning

\* CanLock of an adapter that is shared with a running write.
CanLock_DuringWrite == lock = "" /\ wr.pc # "done" /\ \A r \in Readers : rd[r].pc # "done"

\* self.cache.lock(): a reader borrows the adapter, so no write is running.
CanLock == lock = "" /\ wr.pc = "idle" /\ NoneReturning

\* ReadHit that moves the rows out of the cache instead of cloning them.
ReadHit_Drains(r) ==
    /\ rd[r].pc = "idle"
    /\ CanLock
    /\ cache.some
    /\ \E op \in {"fetch_schema", "scan_data"} : \E t \in CallTables(op) :
          /\ rd' = [rd EXCEPT ![r] = [RdIdle EXCEPT !.pc = "done", !.op = op, !.table = t,
                                                    !.ret = Answer(op, cache.val, t)]]
          /\ cache' = IF op = "scan_data" /\ t = "items"
                      THEN Some([cache.val EXCEPT !.items = <<>>]) ELSE cache
    /\ UNCHANGED <<remote, lock, wr, front>>

\* fetch_schema / scan_data with the slot populated: answered under the lock
\* from the cache, no remote call.
ReadHit(r) ==
    /\ rd[r].pc = "idle"
    /\ CanLock
    /\ cache.some
    /\ \E op \in {"fetch_schema", "scan_data"} : \E t \in CallTables(op) :
          rd' = [rd EXCEPT ![r] = [RdIdle EXCEPT !.pc = "done", !.op = op, !.table = t,
                                                 !.ret = Answer(op, cache.val, t)]]
    /\ UNCHANGED <<remote, cache, lock, wr, front>>

\* ReadMiss without the `if cache.is_none()` test: every call fetches.
ReadMiss_Always(r) ==
    /\ rd[r].pc = "idle"
    /\ CanLock
    /\ lock' = r
    /\ \E op \in {"fetch_schema", "scan_data"} : \E t \in CallTables(op) :
          rd' = [rd EXCEPT ![r] = [RdIdle EXCEPT !.pc = "list_fields", !.op = op, !.table = t]]
    /\ UNCHANGED <<remote, cache, wr, front>>

\* fetch_schema / scan_data with the slot empty: the lock is taken and kept
\* while fetch_data runs.
ReadMiss(r) ==
    /\ rd[r].pc = "idle"
    /\ CanLock
    /\ ~cache.some
    /\ lock' = r
    /\ \E op \in {"fetch_schema", "scan_data"} : \E t \in CallTables(op) :
          rd' = [rd EXCEPT ![r] = [RdIdle EXCEPT !.pc = "list_fields", !.op = op, !.table = t]]
    /\ UNCHANGED <<remote, cache, wr, front>>

\* FetchFailed that stores what was fetched so far.
FetchFailed_StoresPartial(r) ==
    /\ rd' = [rd EXCEPT ![r] = [RdIdle EXCEPT !.pc = "done", !.op = rd[r].op,
                                              !.table = rd[r].table,
                                              !.ncalls = rd[r].ncalls + 1,
                                              !.ret = Err("Storage", "")]]
    /\ cache' = Some(Cache(rd[r].project_id, rd[r].fields,
                           ItemRows(rd[r].items, rd[r].fields)))
    /\ lock' = ""
    /\ UNCHANGED <<remote, wr, front>>

\* The `?` of fetch_data: the error leaves through map_err, the guard drops,
\* the slot stays None.
FetchFailed(r) ==
    /\ rd' = [rd EXCEPT ![r] = [RdIdle EXCEPT !.pc = "done", !.op = rd[r].op,
                                              !.table = rd[r].table,
                                              !.ncalls = rd[r].ncalls + 1,
                                              !.ret = Err("Storage", "")]]
    /\ lock' = ""
    /\ UNCHANGED <<remote, cache, wr, front>>

\* self.list_fields(): one list-fields request. It fails, or names no
\* project, or yields the project id and the filtered fields.
ListFields(r) ==
    /\ rd[r].pc = "list_fields"
    /\ \/ FetchFailed(r)
       \/ /\ rd' = [rd EXCEPT ![r].pc = "scan_items",
                              ![r].project_id = ProjectId,
                              ![r].fields = list_fields(remote.nodes),
                              ![r].ncalls = 1]
          /\ UNCHANGED <<remote, cache, lock, wr, front>>

\* A page the remote may answer to `after`: the next n items, an end cursor
\* or none, and its has-next flag. The last page a population may consume
\* ends the listing.
Pages(after, served) ==
    LET start == IF after.some THEN after.val ELSE 0
        rest == Len(remote.items) - start
    IN  { [after |-> after,
           nodes |-> SubSeq(remote.items, start + 1, start + n),
           end_cursor |-> IF cur THEN Some(start + n) ELSE None,
           has_next_page |-> more] :
            n \in 0..(IF rest > 0 THEN rest ELSE 0),
            cur \in BOOLEAN,
            more \in IF served + 1 >= MaxPages THEN {FALSE} ELSE BOOLEAN }

\* LoopBody that never stores the end cursor in `after`.
LoopBody_KeepsAfter(st, page) ==
    [st EXCEPT !.items = st.items \o page.nodes,
               !.log = st.log \o <<page>>,
               !.ncalls = st.ncalls + 1,
               !.pc = IF page.end_cursor.some /\ page.has_next_page
                      THEN "scan_items" ELSE "fetched"]

\* The body of the `while { ... } {}` loop of scan_items for one response:
\* extend items, keep the cursor, say whether to go on.
LoopBody(st, page) ==
    [st EXCEPT !.items = st.items \o page.nodes,
               !.after = IF page.end_cursor.some THEN page.end_cursor ELSE st.after,
               !.log = st.log \o <<page>>,
               !.ncalls = st.ncalls + 1,
               !.pc = IF page.end_cursor.some /\ page.has_next_page
                      THEN "scan_items" ELSE "fetched"]

\* One list-items request of scan_items.
ListItems(r) ==
    /\ rd[r].pc = "scan_items"
    /\ \/ FetchFailed(r)
       \/ /\ \E page \in Pages(rd[r].after, Len(rd[r].log)) :
                rd' = [rd EXCEPT ![r] = LoopBody(rd[r], page)]
          /\ UNCHANGED <<remote, cache, lock, wr, front>>

\* The rows are built, fetch_data returns the Cache, the slot is filled, the
\* call is answered from it and the guard drops.
Populate(r) ==
    /\ rd[r].pc = "fetched"
    /\ LET c == Cache(rd[r].project_id, rd[r].fields, ItemRows(rd[r].items, rd[r].fields))
       IN  /\ cache' = Some(c)
           /\ rd' = [rd EXCEPT ![r] = [RdIdle EXCEPT !.pc = "done", !.op = rd[r].op,
                                                     !.table = rd[r].table,
                                                     !.ncalls = rd[r].ncalls,
                                                     !.ret = Answer(rd[r].op, c, rd[r].table)]]
    /\ lock' = ""
    /\ UNCHANGED <<remote, wr, front>>

\* The caller takes the answer; the reader is free for its next call.
ReadReturn(r) ==
    /\ rd[r].pc = "done"
    /\ rd' = [rd EXCEPT ![r] = RdIdle]
    /\ UNCHANGED <<remote, cache, lock, wr, front>>

----------------------------------------------------------------------------
(* update_data: the value translator.                                      *)

\* #[derive(Default)] struct ProjectV2FieldValue: every member None.
DefaultValue == [date |-> None, iteration_id |-> None, number |-> None,
                 single_select_option_id |-> None, text |-> None]

Input(value) == [kind |-> "input", val |-> value]

\* fn into_update_input(ty, new_value) -> Option<ProjectV2FieldValue>
into_update_input(ty, new_value) ==
    CASE ty = "Date" ->
            CASE new_value.t = "Str" ->
                    Some([DefaultValue EXCEPT !.date = Some(new_value.v)])
              [] new_value.t = "Date" ->
                    Some([DefaultValue EXCEPT !.date = Some(FormatYmd[new_value.v])])
              [] OTHER -> None
      [] ty = "Float" -> Some([DefaultValue EXCEPT !.number = CastFloat(new_value)])
      [] ty = "Text" -> Some([DefaultValue EXCEPT !.text = CastText(new_value)])
      [] OTHER -> None

\* SingleSelectInput that takes the last option of that name (rfind).
SingleSelectInput_Last(options, new_value) ==
    LET new_str == ToStr(new_value)
        hits == {k \in 1..Len(options) : options[k].name = new_str}
        idx == IF hits = {} THEN 0 ELSE CHOOSE k \in hits : \A m \in hits : m <= k
    IN  IF idx # 0
        THEN Input([DefaultValue EXCEPT !.single_select_option_id = Some(options[idx].id)])
        ELSE Err("ImpossibleCast", "")

\* The SingleSelect arm: the first option whose name is the new text.
SingleSelectInput(options, new_value) ==
    LET new_str == ToStr(new_value)
        idx == FirstIndex(options, 1,
                          {o \in {options[k] : k \in 1..Len(options)} : o.name = new_str})
    IN  IF idx # 0
        THEN Input([DefaultValue EXCEPT !.single_select_option_id = Some(options[idx].id)])
        ELSE Err("ImpossibleCast", "")

\* NewValueInput that resolves the new text as an iteration title to its id.
NewValueInput_ResolvesTitle(field, new_value) ==
    IF ~(new_value.t = "Null")
    THEN CASE field.kind.k = "Normal" ->
                IF ~as_sql_type(field.kind.ty).some
                THEN Err("readonly column", field.kind.ty)
                ELSE LET ty == as_sql_type(field.kind.ty).val
                         input == into_update_input(ty, new_value)
                     IN  IF input.some THEN Input(input.val)
                         ELSE Err("IncompatibleDataType", ty)
           [] field.kind.k = "SingleSelect" ->
                SingleSelectInput(field.kind.options, new_value)
           [] field.kind.k = "Iteration" ->
                LET all == field.kind.iterations \o field.kind.completed_iterations
                    idx == FirstIndex(all, 1, {it \in {all[k] : k \in 1..Len(all)} :
                                                  it.title = ToStr(new_value)})
                IN  IF idx # 0
                    THEN Input([DefaultValue EXCEPT !.iteration_id = Some(all[idx].id)])
                    ELSE Err("ImpossibleCast", "")
    ELSE Input(DefaultValue)

\* `let new_value_input = ...`: the payload for one changed cell, or the
\* error update_data returns for it.
NewValueInput(field, new_value) ==
    IF ~(new_value.t = "Null")
    THEN CASE field.kind.k = "Normal" ->
                IF ~as_sql_type(field.kind.ty).some
                THEN Err("readonly column", field.kind.ty)
                ELSE LET ty == as_sql_type(field.kind.ty).val
                         input == into_update_input(ty, new_value)
                     IN  IF input.some THEN Input(input.val)
                         ELSE Err("IncompatibleDataType", ty)
           [] field.kind.k = "SingleSelect" ->
                SingleSelectInput(field.kind.options, new_value)
           [] field.kind.k = "Iteration" ->
                Input([DefaultValue EXCEPT !.iteration_id = Some(ToStr(new_value))])
    ELSE Input(DefaultValue)

\* Changed without the Null-versus-Null `continue`.
Changed_NullIsChange(new_value, org_value) ==
    IsNull(new_value) \/ ~ValueEq(new_value, org_value)

\* The two `continue` tests of both column loops.
Changed(new_value, org_value) ==
    /\ ~(IsNull(new_value) /\ IsNull(org_value))
    /\ ~ValueEq(new_value, org_value)

\* cache.items.iter().find(|(org_id, _)| org_id == &item_id), as an index
FindItem(items, item_id) ==
    FirstIndex(items, 1, {it \in {items[k] : k \in 1..Len(items)} : it.key = item_id})

\* The loop over the reserved columns: the first changed one, or 0.
RECURSIVE ReservedChanged(_, _, _)
ReservedChanged(new_row, org_row, col) ==
    IF col > RESERVED_COLS THEN 0
    ELSE IF Changed(new_row[col], org_row[col]) THEN col
    ELSE ReservedChanged(new_row, org_row, col + 1)

\* Where update_data stops next, and with what.
Stop(kind, i, j, val) == [kind |-> kind, i |-> i, j |-> j, val |-> val]

RECURSIVE Advance(_, _, _, _)

\* Advance that ends the batch, without an error, at a key it has no row for.
Advance_StopsAtUnknownKey(c, rows, i, j) ==
    IF i > Len(rows) THEN Stop("ok", i, 0, <<>>)
    ELSE LET item_id == rows[i].key
             new_row == rows[i].row
             idx == FindItem(c.items, item_id)
         IN  IF idx = 0 THEN Stop("ok", i, 0, <<>>)
             ELSE LET org_row == c.items[idx].row
                      width == IF Len(new_row) < Len(org_row) THEN Len(new_row)
                               ELSE Len(org_row)
                  IN  IF j = 0
                      THEN LET col == ReservedChanged(new_row, org_row, 1)
                           IN  IF col # 0
                               THEN Stop("err", i, 0,
                                         Err("readonly column",
                                             items_schema(c).column_defs[col].name).val)
                               ELSE Advance(c, rows, i, 1)
                      ELSE IF RESERVED_COLS + j > width THEN Advance(c, rows, i + 1, 0)
                      ELSE IF ~Changed(new_row[RESERVED_COLS + j], org_row[RESERVED_COLS + j])
                           THEN Advance(c, rows, i, j + 1)
                      ELSE LET field == c.fields[j]
                               input == NewValueInput(field, new_row[RESERVED_COLS + j])
                           IN  IF input.kind = "err" THEN Stop("err", i, j, input.val)
                               ELSE Stop("call", i, j,
                                         [project_id |-> c.project_id,
                                          item_id |-> item_id,
                                          field_id |-> field.id,
                                          value |-> input.val])

\* update_data from row i, field j on (j = 0: the row has just been taken
\* from `rows`), up to its next remote call or its return.
Advance(c, rows, i, j) ==
    IF i > Len(rows) THEN Stop("ok", i, 0, <<>>)
    ELSE LET item_id == rows[i].key
             new_row == rows[i].row
             idx == FindItem(c.items, item_id)
         IN  IF idx = 0 THEN Advance(c, rows, i + 1, 0)
             ELSE LET org_row == c.items[idx].row
                      width == IF Len(new_row) < Len(org_row) THEN Len(new_row)
                               ELSE Len(org_row)
                  IN  IF j = 0
                      THEN LET col == ReservedChanged(new_row, org_row, 1)
                           IN  IF col # 0
                               THEN Stop("err", i, 0,
                                         Err("readonly column",
                                             items_schema(c).column_defs[col].name).val)
                               ELSE Advance(c, rows, i, 1)
                      ELSE IF RESERVED_COLS + j > width THEN Advance(c, rows, i + 1, 0)
                      ELSE IF ~Changed(new_row[RESERVED_COLS + j], org_row[RESERVED_COLS + j])
                           THEN Advance(c, rows, i, j + 1)
                      ELSE LET field == c.fields[j]
                               input == NewValueInput(field, new_row[RESERVED_COLS + j])
                           IN  IF input.kind = "err" THEN Stop("err", i, j, input.val)
                               ELSE Stop("call", i, j,
                                         [project_id |-> c.project_id,
                                          item_id |-> item_id,
                                          field_id |-> field.id,
                                          value |-> input.val])

----------------------------------------------------------------------------
(* The remote's side of the two mutations.                                 *)

IsClear(value) == value = DefaultValue

\* The entry a payload leaves on the remote item.
EntryOf(node, value) ==
    CASE value.single_select_option_id.some ->
            LET idx == FirstIndex(node.kind.options, 1,
                          {o \in {node.kind.options[k] : k \in 1..Len(node.kind.options)} :
                              o.id = value.single_select_option_id.val})
            IN  FieldValue(node.id, "SingleSelect", Some(node.kind.options[idx].name))
      [] value.number.some -> FieldValue(node.id, "Number", value.number)
      [] value.text.some -> FieldValue(node.id, "Text", value.text)
      [] value.date.some -> FieldValue(node.id, "Date", value.date)
      [] value.iteration_id.some ->
            LET all == node.kind.iterations \o node.kind.completed_iterations
                idx == FirstIndex(all, 1, {it \in {all[k] : k \in 1..Len(all)} :
                                              it.id = value.iteration_id.val})
            IN  FieldValue(node.id, "Iteration", Some(all[idx].title))

\* The texts the remote takes for a date.
ValidDates == {"2024-01-02", "2024-03-01"}

\* What the remote can apply: a date that is one, the id of an iteration or
\* of an option of the field; any number, any text, and a clear.
RemoteAccepts(rem, call) ==
    LET node == CHOOSE n \in {rem.nodes[k] : k \in 1..Len(rem.nodes)} : n.id = call.field_id
        value == call.value
        all == node.kind.iterations \o node.kind.completed_iterations
    IN  /\ value.date.some => value.date.val \in ValidDates
        /\ value.iteration_id.some =>
              value.iteration_id.val \in {all[k].id : k \in 1..Len(all)}
        /\ value.single_select_option_id.some =>
              value.single_select_option_id.val
                  \in {node.kind.options[k].id : k \in 1..Len(node.kind.options)}

\* The entries of an item after one of them is set or cleared, in field order.
RECURSIVE SetEntry(_, _, _, _)
SetEntry(nodes, entries, field_id, value) ==
    IF nodes = <<>> THEN <<>>
    ELSE LET node == Head(nodes)
             idx == FirstIndex(entries, 1,
                       {e \in {entries[k] : k \in 1..Len(entries)} : e.fid = node.id})
             here == IF node.id = field_id
                     THEN IF IsClear(value) THEN <<>> ELSE <<EntryOf(node, value)>>
                     ELSE IF idx = 0 THEN <<>> ELSE <<entries[idx]>>
         IN  here \o SetEntry(Tail(nodes), entries, field_id, value)

\* The remote after a successful update call.
ApplyUpdate(rem, call) ==
    [rem EXCEPT !.items =
        [k \in 1..Len(rem.items) |->
            IF rem.items[k].id = call.item_id
            THEN [rem.items[k] EXCEPT !.field_values =
                     SetEntry(rem.nodes, rem.items[k].field_values,
                              call.field_id, call.value)]
            ELSE rem.items[k]]]

RECURSIVE WithoutItem(_, _)
WithoutItem(items, item_id) ==
    IF items = <<>> THEN <<>>
    ELSE IF Head(items).id = item_id THEN WithoutItem(Tail(items), item_id)
    ELSE <<Head(items)>> \o WithoutItem(Tail(items), item_id)

\* The remote after a successful delete call.
ApplyDelete(rem, call) == [rem EXCEPT !.items = WithoutItem(rem.items, call.item_id)]

----------------------------------------------------------------------------
(* The batches update_data and delete_data are called with.                *)

Keys == {"i1", "i2", "i9"}

\* Assignments of an UPDATE statement: column -> new value.
Set(col, value) == [col |-> col, value |-> value]
Edits(key) ==
    CASE key = "i1" ->
            { <<>>,
              <<Set(7, I64("5"))>>, <<Set(7, Str("x"))>>,
              <<Set(8, Str("A"))>>, <<Set(8, Str("Z"))>>, <<Set(8, Null)>>,
              <<Set(2, Str("c/d"))>>,
              <<Set(7, I64("5")), Set(8, Str("Z"))>>,
              <<Set(7, I64("5")), Set(8, Str("A"))>>,
              <<Set(2, Str("c/d")), Set(8, Str("A"))>> }
      [] key = "i2" ->
            { <<Set(8, Str("A"))>>, <<Set(7, I64("5"))>>, <<Set(8, Str("Z"))>>,
              <<Set(2, Str("c/d"))>> }
      [] OTHER -> { <<Set(8, Str("A"))>> }

RECURSIVE ApplyEdit(_, _)
ApplyEdit(row, edit) ==
    IF edit = <<>> THEN row
    ELSE ApplyEdit([row EXCEPT ![Head(edit).col] = Head(edit).value], Tail(edit))

\* A row the engine never scanned: it comes with the schema's width.
BlankRow(c, key) ==
    [col \in 1..(RESERVED_COLS + Len(c.fields)) |->
        IF col = 1 THEN Str(key) ELSE IF col = 4 THEN Str("") ELSE Null]

\* The rows a batch may hold: a scanned row with an edit applied.
NewRow(c, key, edit) ==
    LET idx == FindItem(c.items, key)
    IN  [key |-> key,
         row |-> ApplyEdit(IF idx # 0 THEN c.items[idx].row ELSE BlankRow(c, key), edit)]

NewRows(c) == UNION { {NewRow(c, key, edit) : edit \in Edits(key)} : key \in Keys }

SeqsUpTo(S, n) == UNION {[1..m -> S] : m \in 0..n}

UpdateBatches(c) == SeqsUpTo(NewRows(c), MaxRows)
DeleteBatches == SeqsUpTo({[key |-> key, row |-> <<>>] : key \in Keys}, MaxRows)

----------------------------------------------------------------------------
(* update_data / delete_data: `self` is moved in, so the call runs with    *)
(* no reader on the adapter, and is handed back with the result.           *)

Owned == wr.pc = "idle" /\ lock = "" /\ NoneReturning
         /\ \A r \in Readers : rd[r].pc = "idle"

WriteOps == {"update_data", "delete_data"}

\* WriteReadonly with the table test made after the snapshot was taken.
WriteReadonly_AfterTake ==
    /\ Owned
    /\ cache.some
    /\ \E op \in WriteOps : \E t \in (TableNames \cup {"other"}) \ {"items"} :
          wr' = [WrIdle EXCEPT !.pc = "done", !.op = op, !.table = t,
                               !.ret = Err("readonly table", "")]
    /\ cache' = None
    /\ UNCHANGED <<remote, lock, rd, front>>

\* if table_name != "items" { return Err((self, StorageMsg("readonly table"))) }
WriteReadonly ==
    /\ Owned
    /\ \E op \in WriteOps : \E t \in (TableNames \cup {"other"}) \ {"items"} :
          wr' = [WrIdle EXCEPT !.pc = "done", !.op = op, !.table = t,
                               !.ret = Err("readonly table", "")]
    /\ UNCHANGED <<remote, cache, lock, rd, front>>

\* WriteTake that clones the snapshot and leaves it in the slot.
WriteTake_KeepsCache ==
    /\ Owned
    /\ cache.some
    /\ \E op \in WriteOps :
       \E rows \in IF op = "update_data" THEN UpdateBatches(cache.val) ELSE DeleteBatches :
          wr' = [WrIdle EXCEPT !.pc = "taken", !.op = op, !.table = "items",
                               !.rows = rows, !.snap = cache]
    /\ lock' = "w"
    /\ UNCHANGED <<remote, cache, rd, front>>

\* lock().unwrap(); cache_guard.take().unwrap() on a populated slot: the
\* snapshot moves out and the slot is left None.
WriteTake ==
    /\ Owned
    /\ cache.some
    /\ \E op \in WriteOps :
       \E rows \in IF op = "update_data" THEN UpdateBatches(cache.val) ELSE DeleteBatches :
          wr' = [WrIdle EXCEPT !.pc = "taken", !.op = op, !.table = "items",
                               !.rows = rows, !.snap = cache]
    /\ cache' = None
    /\ lock' = "w"
    /\ UNCHANGED <<remote, rd, front>>

\* WritePanic that returns a storage error for an empty slot.
WritePanic_ReturnsError ==
    /\ Owned
    /\ ~cache.some
    /\ \E op \in WriteOps :
          wr' = [WrIdle EXCEPT !.pc = "done", !.op = op, !.table = "items",
                               !.ret = Err("Storage", "")]
    /\ UNCHANGED <<remote, cache, lock, rd, front>>

\* cache_guard.take().unwrap() on an empty slot: the call panics while it
\* holds the guard and owns the adapter.
WritePanic ==
    /\ Owned
    /\ ~cache.some
    /\ \E op \in WriteOps :
          wr' = [WrIdle EXCEPT !.pc = "panicked", !.op = op, !.table = "items"]
    /\ lock' = "w"
    /\ UNCHANGED <<remote, cache, rd, front>>

\* WriteDrop that keeps the guard for the rest of the call.
WriteDrop_KeepsGuard ==
    /\ wr.pc = "taken"
    /\ wr' = [wr EXCEPT !.pc = "run"]
    /\ UNCHANGED <<remote, cache, lock, rd, front>>

\* drop(cache_guard)
WriteDrop ==
    /\ wr.pc = "taken"
    /\ wr' = [wr EXCEPT !.pc = "run"]
    /\ lock' = ""
    /\ UNCHANGED <<remote, cache, rd, front>>

\* CallFailed that notes the error and sends the same request again.
CallFailed_Retries(call) ==
    /\ wr' = [wr EXCEPT !.calls = wr.calls \o <<[call EXCEPT !.ok = FALSE]>>]
    /\ UNCHANGED <<remote, cache, lock, rd, front>>

\* CallFailed that notes the error and goes on with the next cell or key.
CallFailed_GoesOn(call) ==
    /\ wr' = [wr EXCEPT !.i = IF call.op = "delete" THEN call.i + 1 ELSE call.i,
                        !.j = IF call.op = "delete" THEN 0 ELSE call.j + 1,
                        !.calls = wr.calls \o <<[call EXCEPT !.ok = FALSE]>>]
    /\ UNCHANGED <<remote, cache, lock, rd, front>>

\* update_item_field / delete_item_field answered with an error: the write
\* returns Storage(e) at once.
CallFailed(call) ==
    /\ wr' = [wr EXCEPT !.pc = "done", !.i = call.i, !.j = call.j,
                        !.calls = wr.calls \o <<[call EXCEPT !.ok = FALSE]>>,
                        !.ret = Err("Storage", "")]
    /\ UNCHANGED <<remote, cache, lock, rd, front>>

\* self.update_item_field(project_id, item_id, field_id, new_value_input)
UpdateItemField ==
    /\ wr.pc = "run" /\ wr.op = "update_data"
    /\ LET stop == Advance(wr.snap.val, wr.rows, wr.i, wr.j)
       IN  /\ stop.kind = "call"
           /\ LET call == [op |-> "update", ok |-> TRUE, i |-> stop.i, j |-> stop.j,
                           project_id |-> stop.val.project_id,
                           item_id |-> stop.val.item_id, field_id |-> stop.val.field_id,
                           value |-> stop.val.value]
              IN  \/ CallFailed(call)
                  \/ /\ RemoteAccepts(remote, call)
                     /\ remote' = ApplyUpdate(remote, call)
                     /\ wr' = [wr EXCEPT !.i = stop.i, !.j = stop.j + 1,
                                         !.calls = wr.calls \o <<call>>]
                     /\ UNCHANGED <<cache, lock, rd, front>>

\* UpdateReturn that puts the snapshot back into the slot on an error.
UpdateReturn_PutsBack ==
    /\ wr.pc = "run" /\ wr.op = "update_data"
    /\ LET stop == Advance(wr.snap.val, wr.rows, wr.i, wr.j)
       IN  /\ stop.kind # "call"
           /\ wr' = [wr EXCEPT !.pc = "done", !.i = stop.i, !.j = stop.j,
                               !.ret = [kind |-> stop.kind, val |-> stop.val]]
           /\ cache' = IF stop.kind = "err" THEN wr.snap ELSE cache
    /\ UNCHANGED <<remote, lock, rd, front>>

\* update_data returns without a further call: Ok((self, ())) after the last
\* row, or the error of a read-only column or of a cast.
UpdateReturn ==
    /\ wr.pc = "run" /\ wr.op = "update_data"
    /\ LET stop == Advance(wr.snap.val, wr.rows, wr.i, wr.j)
       IN  /\ stop.kind # "call"
           /\ wr' = [wr EXCEPT !.pc = "done", !.i = stop.i, !.j = stop.j,
                               !.ret = [kind |-> stop.kind, val |-> stop.val]]
    /\ UNCHANGED <<remote, cache, lock, rd, front>>

\* DeleteItem that passes over a key the snapshot does not hold, with no call.
DeleteItem_SkipsUncached ==
    /\ wr.pc = "run" /\ wr.op = "delete_data"
    /\ wr.i <= Len(wr.rows)
    /\ LET call == [op |-> "delete", ok |-> TRUE, i |-> wr.i, j |-> 0,
                    project_id |-> wr.snap.val.project_id,
                    item_id |-> wr.rows[wr.i].key, field_id |-> "", value |-> DefaultValue]
       IN  IF FindItem(wr.snap.val.items, call.item_id) = 0
           THEN /\ wr' = [wr EXCEPT !.i = wr.i + 1]
                /\ UNCHANGED <<remote, cache, lock, rd, front>>
           ELSE \/ CallFailed(call)
                \/ /\ remote' = ApplyDelete(remote, call)
                   /\ wr' = [wr EXCEPT !.i = wr.i + 1, !.calls = wr.calls \o <<call>>]
                   /\ UNCHANGED <<cache, lock, rd, front>>

\* self.delete_item_field(cache.project_id.clone(), item_id)
DeleteItem ==
    /\ wr.pc = "run" /\ wr.op = "delete_data"
    /\ wr.i <= Len(wr.rows)
    /\ LET call == [op |-> "delete", ok |-> TRUE, i |-> wr.i, j |-> 0,
                    project_id |-> wr.snap.val.project_id,
                    item_id |-> wr.rows[wr.i].key, field_id |-> "", value |-> DefaultValue]
       IN  \/ CallFailed(call)
           \/ /\ remote' = ApplyDelete(remote, call)
              /\ wr' = [wr EXCEPT !.i = wr.i + 1, !.calls = wr.calls \o <<call>>]
              /\ UNCHANGED <<cache, lock, rd, front>>

\* delete_data: Ok((self, ())) after the last key
DeleteReturn ==
    /\ wr.pc = "run" /\ wr.op = "delete_data"
    /\ wr.i > Len(wr.rows)
    /\ wr' = [wr EXCEPT !.pc = "done", !.ret = Ok(<<>>)]
    /\ UNCHANGED <<remote, cache, lock, rd, front>>

\* The engine takes (self, result) back.
WriteReturn ==
    /\ wr.pc = "done"
    /\ wr' = WrIdle
    /\ UNCHANGED <<remote, cache, lock, rd, front>>

Next ==
    \/ \E r \in Readers :
        \/ ReadHit(r)
        \/ ReadMiss(r)
        \/ ListFields(r)
        \/ ListItems(r)
        \/ Populate(r)
        \/ ReadReturn(r)
    \/ WriteReadonly
    \/ WriteTake
    \/ WritePanic
    \/ WriteDrop
    \/ UpdateItemField
    \/ UpdateReturn
    \/ DeleteItem
    \/ DeleteReturn
    \/ WriteReturn

Spec == Init /\ [][Next]_vars

----------------------------------------------------------------------------
(* The read side alone, over projects of several field lists: no field, a  *)
(* number and a single-select field, an iteration, a date and a text       *)
(* field, in different orders.                                             *)

Iteration(id, title, start_date, duration) ==
    [id |-> id, title |-> title, start_date |-> start_date, duration |-> duration]

SprintNode == FieldNode("ProjectV2IterationField", "fI", "Sprint", "ITERATION",
                        IterationKind(<<Iteration("s2", "S2", "2024-02-01", "14")>>,
                                      <<Iteration("s1", "S1", "2024-01-01", "14")>>))
DueNode == FieldNode("ProjectV2Field", "fD", "Due", "DATE", NormalKind("DATE"))
NotesNode == FieldNode("ProjectV2Field", "fX", "Notes", "TEXT", NormalKind("TEXT"))

\* A plain field and a single-select field that carry the names of columns
\* of the items table.
IssueNode == FieldNode("ProjectV2Field", "fN", "Issue", "NUMBER", NormalKind("NUMBER"))
LabelsNode == FieldNode("ProjectV2SingleSelectField", "fB", "Labels", "SINGLE_SELECT",
                        SingleSelectKind(<<Option1>>))

ReadProjectNodes ==
    { <<>>,
      <<TitleNode, PointsNode, StatusNode>>,
      <<StatusNode, TitleNode, SprintNode, DueNode>>,
      <<NotesNode, PointsNode>>,
      <<IssueNode, LabelsNode>> }

DraftContent(title, assignees) ==
    Some([variant |-> "DraftIssue", repo |-> "", number |-> "", title |-> title,
          assignees |-> assignees, labels |-> ""])

ReadItems ==
    << Item("i1", IssueContent("a/b", "1", "T1", "alice", "bug"),
            <<FieldValue("fS", "SingleSelect", Some("B")),
              FieldValue("fI", "Iteration", Some("S1")),
              FieldValue("fX", "Text", Some("hello"))>>),
       Item("i2", None,
            <<FieldValue("fS", "SingleSelect", None),
              FieldValue("fP", "Number", Some("7.0")),
              FieldValue("fD", "Date", Some("2024-01-02")),
              FieldValue("fI", "Iteration", Some("S9"))>>),
       Item("i3", DraftContent("D3", "bob"),
            <<FieldValue("fS", "SingleSelect", Some("Z"))>>) >>

InitRead ==
    /\ remote \in {[nodes |-> n, items |-> ReadItems] : n \in ReadProjectNodes}
    /\ cache = None
    /\ lock = ""
    /\ rd = [r \in Readers |-> RdIdle]
    /\ wr = WrIdle
    /\ gh = GhIdle
    /\ prompt = PromptIdle

NextRead ==
    \E r \in Readers :
        \/ ReadHit(r)
        \/ ReadMiss(r)
        \/ ListFields(r)
        \/ ListItems(r)
        \/ Populate(r)
        \/ ReadReturn(r)

SpecRead == InitRead /\ [][NextRead]_vars

----------------------------------------------------------------------------
(* gh::graphql: one request sent through the `gh` process.                 *)

Requests == {"list_fields", "list_items", "update_item_field", "delete_item"}

\* ExitStatus: the exit code, or "signal" when the process was killed.
Statuses == {"0", "1", "2", "4", "signal"}
\* ExitStatus::success
success(status) == status = "0"
\* ExitStatus::code
code(status) == IF status = "signal" THEN None ELSE Some(status)

\* What `gh` wrote to stdout: whether it is a JSON object, what its `data`
\* member is (a T, null, or absent) and the messages of its `errors` member.
Body(json, data, errors) == [json |-> json, data |-> data, errors |-> errors]
Bodies ==
    { Body(FALSE, "absent", <<>>),
      Body(TRUE, "T", <<>>),
      Body(TRUE, "T", <<"m1">>),
      Body(TRUE, "null", <<"m1", "m2">>),
      Body(TRUE, "absent", <<"m1">>),
      Body(TRUE, "absent", <<>>) }

Outputs == [status : Statuses, stdout : Bodies, stderr : {"", "HTTP 502"}]

\* serde_json::from_slice::<GraphQLErrors>: any JSON object, `errors` defaulted
ErrResp(stdout) == IF stdout.json THEN Some(stdout.errors) ELSE None
\* serde_json::from_slice::<RespBody<T>>: a JSON object whose `data` is a T
DataResp(stdout) == IF stdout.json /\ stdout.data = "T" THEN Some(stdout.data) ELSE None

\* What graphql hands back: Ok(GraphQLResponse { data, errors }), or an
\* anyhow error with its chain of contexts (outermost first), or a panic.
GhRet(kind, data, errors, chain) ==
    [kind |-> kind, data |-> data, errors |-> errors, chain |-> chain]

\* GraphQLErrors::error_msgs: the messages, in order (joined by " / ")
error_msgs(errors) == <<"error_msgs">> \o errors

\* Decode that answers a body without data but with an error list as a
\* response holding the errors.
Decode_ErrorsAsResponse(output) ==
    IF ~success(output.status) /\ ~code(output.status).some
    THEN GhRet("panic", "", <<>>, <<"process has been exited">>)
    ELSE LET err_resp == ErrResp(output.stdout)
             data_resp == DataResp(output.stdout)
         IN  IF data_resp.some
             THEN GhRet("ok", data_resp.val,
                        IF err_resp.some THEN err_resp.val ELSE <<>>, <<>>)
             ELSE IF err_resp.some
                  THEN GhRet("ok", "", err_resp.val, <<>>)
                  ELSE GhRet("err", "", <<>>,
                             <<"Failed to parse error response", "Failed to parse response">>)

\* graphql after wait_with_output has returned `output`.
Decode(output) ==
    IF ~success(output.status) /\ ~code(output.status).some
    THEN GhRet("panic", "", <<>>, <<"process has been exited">>)
    ELSE \* anyhow!(..) builds the status error and drops it
         LET err_resp == ErrResp(output.stdout)
             data_resp == DataResp(output.stdout)
         IN  IF data_resp.some
             THEN GhRet("ok", data_resp.val,
                        IF err_resp.some THEN err_resp.val ELSE <<>>, <<>>)
             ELSE IF err_resp.some
                  THEN GhRet("err", "", <<>>,
                             error_msgs(err_resp.val) \o <<"Failed to parse response">>)
                  ELSE GhRet("err", "", <<>>,
                             <<"Failed to parse error response", "Failed to parse response">>)

\* What the function that sent the request returns for what graphql handed
\* back. All four apply `?` to it; update_item_field and delete_item_field
\* then return Err("Error: {:?}", resp.errors) when the error list is not
\* empty, while list_fields and scan_items go on with resp.data.
Handled(req, ret) ==
    CASE ret.kind = "panic" -> [kind |-> "panic", msgs |-> <<>>]
      [] ret.kind = "err" -> [kind |-> "err", msgs |-> ret.chain]
      [] ret.kind = "ok" /\ req \in {"update_item_field", "delete_item"}
                         /\ ret.errors # <<>>
            -> [kind |-> "err", msgs |-> <<"Error">> \o ret.errors]
      [] OTHER -> [kind |-> "ok", msgs |-> <<>>]

GhStart == [pc |-> "start", req |-> "", output |-> None, ret |-> GhRet("", "", <<>>, <<>>),
            result |-> [kind |-> "", msgs |-> <<>>]]

InitGh ==
    /\ remote = [nodes |-> <<>>, items |-> <<>>]
    /\ cache = None
    /\ lock = ""
    /\ rd = [r \in Readers |-> RdIdle]
    /\ wr = WrIdle
    /\ gh \in {[GhStart EXCEPT !.req = req] : req \in Requests}
    /\ prompt = PromptIdle

\* A step of graphql that fails with its context: the call returns.
GhFailed(context) ==
    gh' = [gh EXCEPT !.pc = "returned", !.ret = GhRet("err", "", <<>>, <<context>>)]

\* Command::new("gh")...spawn()
GhSpawn ==
    /\ gh.pc = "start"
    /\ \/ GhFailed("Failed to execute gh command")
       \/ gh' = [gh EXCEPT !.pc = "spawned"]
    /\ UNCHANGED <<store, prompt>>

\* stdin.write_all(&req_body_bytes)
GhWrite ==
    /\ gh.pc = "spawned"
    /\ \/ GhFailed("Failed to write request body to stdin of gh")
       \/ gh' = [gh EXCEPT !.pc = "written"]
    /\ UNCHANGED <<store, prompt>>

\* gh.wait_with_output()
GhWait ==
    /\ gh.pc = "written"
    /\ \/ GhFailed("Failed to read response from gh")
       \/ \E output \in Outputs : gh' = [gh EXCEPT !.pc = "exited", !.output = Some(output)]
    /\ UNCHANGED <<store, prompt>>

\* The status test, the two decodings and the return.
GhReturn ==
    /\ gh.pc = "exited"
    /\ gh' = [gh EXCEPT !.pc = "returned", !.ret = Decode(gh.output.val)]
    /\ UNCHANGED <<store, prompt>>

\* gh::graphql(query, &variables)? and the test of resp.errors in the caller.
GhHandled ==
    /\ gh.pc = "returned"
    /\ gh' = [gh EXCEPT !.pc = "handled", !.result = Handled(gh.req, gh.ret)]
    /\ UNCHANGED <<store, prompt>>

NextGh == GhSpawn \/ GhWrite \/ GhWait \/ GhReturn \/ GhHandled

SpecGh == InitGh /\ [][NextGh]_vars

----------------------------------------------------------------------------
(* Prompt::run: the read loop of the interactive prompt. A line is a       *)
(* sequence of characters: "w" a word, "b" a word the parser refuses, ";", *)
(* "s" a space, "q" a quote; "n" is the newline readline appends.          *)

\* Characters and tokens the two buffers may hold when a line is read.
MaxBuffered == 7

Lines == { <<>>, <<"w">>, <<"w", ";">>, <<"b", ";">>, <<";">>,
           <<"q", "w">>, <<"q", ";">>, <<"w", ";", "s", "w">> }

\* Tokenizer::tokenize: None for an unterminated string literal; a quoted
\* span is one "lit" token, a space or newline a "ws" token.
RECURSIVE tokenize(_, _)
tokenize(chars, in_literal) ==
    IF chars = <<>> THEN (IF in_literal THEN None ELSE Some(<<>>))
    ELSE LET c == Head(chars)
             rest == tokenize(Tail(chars), IF c = "q" THEN ~in_literal ELSE in_literal)
             here == IF c = "q" THEN (IF in_literal THEN <<>> ELSE <<"lit">>)
                     ELSE IF in_literal THEN <<>>
                     ELSE IF c \in {"s", "n"} THEN <<"ws">>
                     ELSE <<c>>
         IN  IF rest.some THEN Some(here \o rest.val) ELSE None

\* .take_while(|t| matches!(t, Token::Whitespace(_))).count() from `from` on
RECURSIVE ws_len(_, _)
ws_len(tokens, from) ==
    IF from > Len(tokens) \/ tokens[from] # "ws" THEN 0
    ELSE 1 + ws_len(tokens, from + 1)

\* Parser::parse_statement: refused when a refused word is met or when the
\* statement holds nothing but the semicolon.
parse_statement(tokens) ==
    LET words == {tokens[k] : k \in 1..Len(tokens)}
    IN  IF "b" \in words \/ words \cap {"w", "lit"} = {} THEN None ELSE Some(tokens)

\* What the engine answers to a statement, and how printing its rows ends.
Outcomes == {"select printed", "select print failed", "other payload", "error"}

PromptStart == [pc |-> "reading", input_buf |-> <<>>, tokens_buf |-> <<>>,
                last |-> "", ret |-> ""]

InitPrompt ==
    /\ remote = [nodes |-> <<>>, items |-> <<>>]
    /\ cache = None
    /\ lock = ""
    /\ rd = [r \in Readers |-> RdIdle]
    /\ wr = WrIdle
    /\ gh = GhIdle
    /\ prompt = PromptStart

\* The state after readline() has returned Ok(()) or Err for one line and
\* run() has matched on it.
AfterLine(p, line, outcome) ==
    IF line = <<>> THEN [p EXCEPT !.last = "empty line"]
    ELSE LET input_buf == p.input_buf \o line \o <<"n">>
             new_tokens == tokenize(input_buf, FALSE)
             tokens_buf == IF new_tokens.some THEN p.tokens_buf \o new_tokens.val
                           ELSE p.tokens_buf
             q == [p EXCEPT !.input_buf = IF new_tokens.some THEN <<>> ELSE input_buf]
             pos == FirstIndex(tokens_buf, 1, {";"})
         IN  IF pos = 0 THEN [q EXCEPT !.tokens_buf = tokens_buf, !.last = "incomplete"]
             ELSE LET upto == pos + ws_len(tokens_buf, pos + 1)
                      tokens == SubSeq(tokens_buf, 1, upto)
                      r == [q EXCEPT !.tokens_buf = SubSeq(tokens_buf, upto + 1, Len(tokens_buf))]
                  IN  IF ~parse_statement(tokens).some
                      THEN [r EXCEPT !.last = "Syntax Error"]
                      ELSE CASE outcome = "error" -> [r EXCEPT !.last = "SQL execution error"]
                             [] outcome = "other payload" -> [r EXCEPT !.last = "executed"]
                             [] outcome = "select printed" -> [r EXCEPT !.last = "rows"]
                             [] outcome = "select print failed" ->
                                    [r EXCEPT !.last = "print failed", !.pc = "returned",
                                              !.ret = "err"]

\* rl.readline() hands a line over: readline() runs to its return.
PromptLine ==
    /\ prompt.pc = "reading"
    /\ \E line \in Lines : \E outcome \in Outcomes :
          /\ Len(prompt.input_buf) + Len(prompt.tokens_buf) + Len(line) <= MaxBuffered
          /\ prompt' = AfterLine(prompt, line, outcome)
    /\ UNCHANGED <<store, gh>>

\* PromptInterrupted that forgets the typed text but keeps the tokens.
PromptInterrupted_KeepsTokens ==
    /\ prompt.pc = "reading"
    /\ prompt' = [prompt EXCEPT !.input_buf = <<>>, !.last = "interrupted"]
    /\ UNCHANGED <<store, gh>>

\* Ok(ReadlineError::Interrupted): both buffers are emptied, the loop goes on.
PromptInterrupted ==
    /\ prompt.pc = "reading"
    /\ prompt' = [prompt EXCEPT !.input_buf = <<>>, !.tokens_buf = <<>>,
                                !.last = "interrupted"]
    /\ UNCHANGED <<store, gh>>

\* Ok(ReadlineError::Eof) => return Ok(())
PromptEof ==
    /\ prompt.pc = "reading"
    /\ prompt' = [prompt EXCEPT !.pc = "returned", !.last = "eof", !.ret = "ok"]
    /\ UNCHANGED <<store, gh>>

\* Ok(e) => return Err(e.into()): any other ReadlineError
PromptReadError ==
    /\ prompt.pc = "reading"
    /\ prompt' = [prompt EXCEPT !.pc = "returned", !.last = "read error", !.ret = "err"]
    /\ UNCHANGED <<store, gh>>

NextPrompt == PromptLine \/ PromptInterrupted \/ PromptEof \/ PromptReadError

SpecPrompt == InitPrompt /\ [][NextPrompt]_vars

----------------------------------------------------------------------------
(* scan_items against a remote that decides by itself when the listing     *)
(* ends: it may go on for any number of pages, and an endless remote       *)
(* answers every list-items request with a cursor and has-next-page true.  *)

\* The pages a remote may answer to `after`: one that tells the client to go
\* on (a cursor and has-next-page true), or one that does not.
PagesOf(after, goes_on) ==
    LET start == IF after.some THEN after.val ELSE 0
        rest == Len(remote.items) - start
    IN  { [after |-> after,
           nodes |-> SubSeq(remote.items, start + 1, start + n),
           end_cursor |-> IF flags[1] THEN Some(start + n) ELSE None,
           has_next_page |-> flags[2]] :
            n \in 0..(IF rest > 0 THEN rest ELSE 0),
            flags \in {f \in BOOLEAN \X BOOLEAN : (f[1] /\ f[2]) = goes_on} }

\* What the model remembers of a long listing: the last MaxPages pages and
\* the request count up to MaxPages + 2 (more than MaxPages pages consumed).
Remember(st) ==
    [st EXCEPT !.log = IF Len(st.log) > MaxPages
                       THEN SubSeq(st.log, Len(st.log) - MaxPages + 1, Len(st.log))
                       ELSE st.log,
               !.ncalls = IF st.ncalls > MaxPages + 2 THEN MaxPages + 2 ELSE st.ncalls]

\* PageStep of a client that stops listing after MaxPages pages.
PageStep_Capped(st, page) ==
    LET next == Remember(LoopBody(st, page))
    IN  IF st.ncalls >= MaxPages THEN [next EXCEPT !.pc = "fetched"] ELSE next

\* One turn of the `while { ... } {}` loop of scan_items.
PageStep(st, page) == Remember(LoopBody(st, page))

InitPage ==
    /\ remote \in {[nodes |-> n, items |-> InitialItems, endless |-> e] :
                      n \in ProjectNodes, e \in BOOLEAN}
    /\ cache = None
    /\ lock = ""
    /\ rd = [r \in Readers |-> RdIdle]
    /\ wr = WrIdle
    /\ gh = GhIdle
    /\ prompt = PromptIdle

\* A list-items request answered with a page that has a cursor and
\* has-next-page true: the loop goes round again.
PageMore(r) ==
    /\ rd[r].pc = "scan_items"
    /\ \E page \in PagesOf(rd[r].after, TRUE) :
          rd' = [rd EXCEPT ![r] = PageStep(rd[r], page)]
    /\ UNCHANGED <<remote, cache, lock, wr, front>>

\* A list-items request answered with a page without a cursor or with
\* has-next-page false: the loop ends.
PageLast(r) ==
    /\ rd[r].pc = "scan_items"
    /\ ~remote.endless
    /\ \E page \in PagesOf(rd[r].after, FALSE) :
          rd' = [rd EXCEPT ![r] = PageStep(rd[r], page)]
    /\ UNCHANGED <<remote, cache, lock, wr, front>>

\* A list-items request that fails (never against the endless remote, which
\* answers every request).
PageFailed(r) ==
    /\ rd[r].pc = "scan_items"
    /\ ~remote.endless
    /\ FetchFailed(r)

NextPage ==
    \E r \in Readers :
        \/ ReadHit(r)
        \/ ReadMiss(r)
        \/ ListFields(r)
        \/ PageMore(r)
        \/ PageLast(r)
        \/ PageFailed(r)
        \/ Populate(r)
        \/ ReadReturn(r)

\* The reader's thread keeps running, and a remote that is not endless
\* eventually answers with a page that ends the listing.
SpecPage ==
    /\ InitPage
    /\ [][NextPage]_vars
    /\ \A r \in Readers : WF_vars(PageLast(r))

----------------------------------------------------------------------------
(* update_data over a project with a field of every kind the value         *)
(* translator tells apart: a date, a number, a text, an iteration field    *)
(* and a plain field of a type without a SQL type. One UPDATE sets one     *)
(* column of the item.                                                     *)

TagsNode == FieldNode("ProjectV2Field", "fL", "Tags", "LABELS", NormalKind("LABELS"))

TypedNodes == <<DueNode, PointsNode, NotesNode, SprintNode, TagsNode>>

TypedItems ==
    << Item("w1", IssueContent("a/b", "1", "T1", "alice", "bug"),
            <<FieldValue("fD", "Date", Some("2024-01-02")),
              FieldValue("fP", "Number", Some("7.0")),
              FieldValue("fX", "Text", Some("hello")),
              FieldValue("fI", "Iteration", Some("S2")),
              FieldValue("fL", "Label", Some("bug"))>>) >>

\* The assignments of the UPDATE statements: column -> new value.
TypedEdits ==
    { Set(7, Date("2024/3/1")), Set(7, Str("2024-03-01")), Set(7, Str("soon")),
      Set(7, I64("5")), Set(7, Null),
      Set(8, I64("5")), Set(8, Str("5")), Set(8, F64("7.0")), Set(8, Str("x")), Set(8, Null),
      Set(9, Str("hi")), Set(9, List("a")), Set(9, Null),
      Set(10, Str("S1")), Set(10, Str("s1")), Set(10, I64("5")), Set(10, Null),
      Set(11, Str("x")), Set(11, List("x")), Set(11, Null) }

TypedBatches(c) == { <<NewRow(c, "w1", <<edit>>)>> : edit \in TypedEdits }

InitTyped ==
    /\ remote = [nodes |-> TypedNodes, items |-> TypedItems]
    /\ cache = None
    /\ lock = ""
    /\ rd = [r \in Readers |-> RdIdle]
    /\ wr = WrIdle
    /\ gh = GhIdle
    /\ prompt = PromptIdle

\* update_data("items", rows) for one of these statements, up to the take.
WriteTakeTyped ==
    /\ Owned
    /\ cache.some
    /\ \E rows \in TypedBatches(cache.val) :
          wr' = [WrIdle EXCEPT !.pc = "taken", !.op = "update_data", !.table = "items",
                               !.rows = rows, !.snap = cache]
    /\ cache' = None
    /\ lock' = "w"
    /\ UNCHANGED <<remote, rd, front>>

NextTyped ==
    \/ \E r \in Readers :
        \/ ReadHit(r)
        \/ ReadMiss(r)
        \/ ListFields(r)
        \/ ListItems(r)
        \/ Populate(r)
        \/ ReadReturn(r)
    \/ WriteTakeTyped
    \/ WriteDrop
    \/ UpdateItemField
    \/ UpdateReturn
    \/ WriteReturn

SpecTyped == InitTyped /\ [][NextTyped]_vars

----------------------------------------------------------------------------
(* Properties.                                                             *)

Fetching == {"list_fields", "scan_items", "fetched"}
InFlight == {r \in Readers : rd[r].pc \in Fetching}

WriteDone(op) == wr.pc = "done" /\ wr.op = op /\ wr.table = "items"
WriteOk == wr.pc = "done" /\ wr.table = "items" /\ wr.ret.kind = "ok"

RECURSIVE Concat(_)
Concat(ss) == IF ss = <<>> THEN <<>> ELSE Head(ss) \o Concat(Tail(ss))

\* C1: when update_data or delete_data on `items` returns ok the slot is
\* None, and a read that finds the slot None does not answer at once: it
\* takes the lock and starts a population with the list-fields request.
C1_WriteOkForcesRefetch ==
    /\ [](WriteOk => ~cache.some)
    /\ [][\A r \in Readers :
            (~cache.some /\ rd[r].pc = "idle" /\ rd'[r].pc # "idle")
                => (rd'[r].pc = "list_fields" /\ rd'[r].ncalls = 0 /\ lock' = r)]_vars
    /\ [][\A r \in Readers :
            (~cache.some /\ rd[r].pc # "done" /\ rd'[r].pc = "done" /\ rd'[r].ret.kind = "ok")
                => (rd'[r].ncalls >= 2 /\ cache'.some)]_vars

\* C1 witness: an update batch that sent calls has returned ok.
C1_Witness == WriteOk /\ wr.op = "update_data" /\ Len(wr.calls) >= 1 /\ ~cache.some

\* C2: while the slot is populated no population runs, and a read that
\* starts then is answered from the slot with no remote call and leaves the
\* slot as it is; the slot is filled only by a population that sent one
\* list-fields request and one list-items request per page.
C2_PopulatedServesFromCache ==
    /\ [](cache.some => InFlight = {})
    /\ [][\A r \in Readers :
            (cache.some /\ rd[r].pc = "idle" /\ rd'[r].pc # "idle")
                => /\ rd'[r].pc = "done"
                   /\ rd'[r].ncalls = 0
                   /\ rd'[r].ret = Answer(rd'[r].op, cache.val, rd'[r].table)
                   /\ cache' = cache]_vars
    /\ [][(~cache.some /\ cache'.some)
            => \E r \in Readers : /\ rd[r].pc = "fetched"
                                  /\ rd'[r].ncalls = 1 + Len(rd[r].log)]_vars

\* C2 witness: a read answered from the populated slot with no remote call.
C2_Witness ==
    \E r \in Readers : rd[r].pc = "done" /\ rd[r].ret.kind = "ok" /\ rd[r].ncalls = 0
                       /\ cache.some

\* A snapshot with its project id, every kept field and full-width rows.
CompleteSnapshot(c) ==
    /\ c.project_id = ProjectId
    /\ c.fields = list_fields(remote.nodes)
    /\ \A k \in 1..Len(c.items) : Len(c.items[k].row) = RESERVED_COLS + Len(c.fields)

\* C3: at most one population is in flight, it holds the lock and the slot
\* is None for as long as it runs; a populated slot holds a complete
\* snapshot, and every answer comes from such a slot.
C3_OnePopulationNoPartial ==
    /\ Cardinality(InFlight) <= 1
    /\ \A r \in InFlight : lock = r /\ ~cache.some
    /\ cache.some => CompleteSnapshot(cache.val)
    /\ \A r \in Readers :
          (rd[r].pc = "done" /\ rd[r].ret.kind = "ok")
              => (cache.some /\ rd[r].ret = Answer(rd[r].op, cache.val, rd[r].table))

\* C3 witness: a population has a page of items in hand, the slot is still
\* None and the other reader has not got the lock.
C3_Witness ==
    \E r \in Readers : \E q \in Readers \ {r} :
        /\ rd[r].pc = "scan_items" /\ Len(rd[r].items) >= 1
        /\ rd[q].pc = "idle" /\ ~cache.some /\ lock = r

Nodes(log) == Concat([k \in 1..Len(log) |-> log[k].nodes])
GoesOn(page) == page.end_cursor.some /\ page.has_next_page

\* C4: when the pagination loop has ended, the items are the pages' nodes in
\* page order, one list-items request was sent per page, the first with
\* after = None and each later one with the end cursor of the page before,
\* and the loop ended at the first page with no cursor or no next page.
C4_Pagination ==
    \A r \in Readers :
        LET log == rd[r].log
        IN  /\ rd[r].pc \in {"scan_items", "fetched"} =>
                /\ rd[r].items = Nodes(log)
                /\ rd[r].ncalls = 1 + Len(log)
                /\ Len(log) >= 1 => log[1].after = None
                /\ \A k \in 2..Len(log) : log[k].after = log[k - 1].end_cursor
                /\ \A k \in 1..(Len(log) - 1) : GoesOn(log[k])
            /\ rd[r].pc = "scan_items" => \A k \in 1..Len(log) : GoesOn(log[k])
            /\ rd[r].pc = "fetched" => (Len(log) >= 1 /\ ~GoesOn(log[Len(log)]))

\* C4 witness: the loop ended after two pages that both carried an item.
C4_Witness ==
    \E r \in Readers :
        /\ rd[r].pc = "fetched" /\ Len(rd[r].log) = 2
        /\ rd[r].log[1].nodes # <<>> /\ rd[r].log[2].nodes # <<>>

ReservedNames == {"id", "Repository", "Issue", "Title", "Assignees", "Labels"}
SchemaViolations == {"readonly column", "ImpossibleCast", "IncompatibleDataType"}

\* The cached row of a key of the batch, and whether the batch row i changes
\* one of its reserved columns.
OrgRow(i) == wr.snap.val.items[FindItem(wr.snap.val.items, wr.rows[i].key)].row
Cached(i) == FindItem(wr.snap.val.items, wr.rows[i].key) # 0
ChangesReserved(i) ==
    /\ Cached(i)
    /\ \E col \in 1..RESERVED_COLS : /\ wr.rows[i].row[col] # OrgRow(i)[col]
                                     /\ ~(IsNull(wr.rows[i].row[col]) /\ IsNull(OrgRow(i)[col]))

\* C5 (as claimed): an update batch with a row that changes a reserved
\* column of a cached item is returned with `readonly column: <name>` and has
\* sent no remote update call at all.
C5_ReservedChangeSendsNothing ==
    (WriteDone("update_data") /\ wr.ret.kind = "err" /\ wr.ret.val.error = "readonly column"
        /\ \E i \in 1..Len(wr.rows) : ChangesReserved(i))
    => (wr.ret.val.arg \in ReservedNames /\ wr.calls = <<>>)

\* C6 (as claimed): when update_data returns a schema violation for the row
\* of item X, no update call carrying item id X has been sent.
C6_ViolationBeforeAnyCallOfItem ==
    (WriteDone("update_data") /\ wr.ret.kind = "err"
        /\ wr.ret.val.error \in SchemaViolations)
    => \A k \in 1..Len(wr.calls) : wr.calls[k].item_id # wr.rows[wr.i].key

\* The new value and the field of cell (i, j) of the batch.
NewValue(i, j) == wr.rows[i].row[RESERVED_COLS + j]
FieldAt(j) == wr.snap.val.fields[j]
OptionNames(field) == {field.kind.options[k].name : k \in 1..Len(field.kind.options)}

\* A changed SingleSelect cell of a cached item whose new value is not Null
\* and names no option.
NamesNoOption(i, j) ==
    /\ Cached(i)
    /\ FieldAt(j).kind.k = "SingleSelect"
    /\ ~IsNull(NewValue(i, j))
    /\ NewValue(i, j) # OrgRow(i)[RESERVED_COLS + j]
    /\ ToStr(NewValue(i, j)) \notin OptionNames(FieldAt(j))

\* C7: every call sent for a non-null value written to a SingleSelect field
\* carries, and carries only, the id of the first option named like the
\* value; a value that names no option gets no call, stops the batch from
\* returning ok, and `impossible cast` is returned exactly at such a cell.
C7_SingleSelectWrite ==
    wr.op = "update_data" /\ wr.snap.some =>
        /\ \A k \in 1..Len(wr.calls) :
              LET call == wr.calls[k]
                  field == FieldAt(call.j)
                  opts == field.kind.options
              IN  (field.kind.k = "SingleSelect" /\ ~IsNull(NewValue(call.i, call.j))) =>
                    \E n \in 1..Len(opts) :
                        /\ opts[n].name = ToStr(NewValue(call.i, call.j))
                        /\ \A m \in 1..(n - 1) : opts[m].name # opts[n].name
                        /\ call.value = [DefaultValue EXCEPT
                                            !.single_select_option_id = Some(opts[n].id)]
        /\ \A i \in 1..Len(wr.rows) : \A j \in 1..Len(wr.snap.val.fields) :
              NamesNoOption(i, j) =>
                  /\ \A k \in 1..Len(wr.calls) : ~(wr.calls[k].i = i /\ wr.calls[k].j = j)
                  /\ ~(wr.pc = "done" /\ wr.ret.kind = "ok")
        /\ (wr.pc = "done" /\ wr.ret.kind = "err" /\ wr.ret.val.error = "ImpossibleCast")
              => NamesNoOption(wr.i, wr.j)

\* C7 witness: "A" names the options o1 and o3 and o1 was sent for it, in a
\* batch that was then returned with `impossible cast`.
C7_Witness ==
    /\ WriteDone("update_data") /\ wr.ret = Err("ImpossibleCast", "")
    /\ \E k \in 1..Len(wr.calls) :
          /\ wr.calls[k].value.single_select_option_id = Some("o1")
          /\ NewValue(wr.calls[k].i, wr.calls[k].j) = Str("A")

\* C8: update_data and delete_data on a table other than `items` return
\* `readonly table` in one step that sends no call and leaves the slot,
\* populated or None, and the remote as they are.
C8_ReadonlyTable ==
    /\ [][(wr.pc = "idle" /\ wr'.pc # "idle" /\ wr'.table # "items")
            => /\ wr'.pc = "done"
               /\ wr'.ret = Err("readonly table", "")
               /\ wr'.calls = <<>>
               /\ cache' = cache /\ remote' = remote /\ lock' = lock]_vars
    /\ [][(wr.pc = "done" /\ wr.table # "items") => (cache' = cache /\ wr' = WrIdle)]_vars

\* C8 witness: delete_data on `options` was refused with the slot populated.
C8_Witness ==
    /\ wr.pc = "done" /\ wr.op = "delete_data" /\ wr.table = "options"
    /\ wr.ret = Err("readonly table", "") /\ cache.some

\* The entries the remote holds for a field of an item.
RemoteEntries(item_id, field_id) ==
    {e \in UNION {{remote.items[n].field_values[m] : m \in 1..Len(remote.items[n].field_values)} :
                    n \in {n \in 1..Len(remote.items) : remote.items[n].id = item_id}} :
        e.fid = field_id}

NodeOf(field_id) ==
    CHOOSE node \in {remote.nodes[n] : n \in 1..Len(remote.nodes)} : node.id = field_id

\* The update call k was answered ok and no later call of the batch wrote
\* the same cell.
LastWrite(k) ==
    /\ wr.calls[k].ok
    /\ \A m \in (k + 1)..Len(wr.calls) :
          ~(wr.calls[m].ok /\ wr.calls[m].item_id = wr.calls[k].item_id
                           /\ wr.calls[m].field_id = wr.calls[k].field_id)

\* C9: a failed update call is the last call of its batch and the batch has
\* returned the storage error; the remote still holds what the calls
\* answered ok before it wrote.
C9_RemoteFailureStopsBatch ==
    wr.op = "update_data" =>
        /\ \A k \in 1..Len(wr.calls) :
              ~wr.calls[k].ok => (k = Len(wr.calls) /\ wr.pc = "done"
                                  /\ wr.ret = Err("Storage", ""))
        /\ (wr.pc = "done" /\ wr.ret = Err("Storage", "")) =>
              /\ Len(wr.calls) >= 1
              /\ ~wr.calls[Len(wr.calls)].ok
              /\ \A k \in 1..Len(wr.calls) :
                    LastWrite(k) =>
                        RemoteEntries(wr.calls[k].item_id, wr.calls[k].field_id) =
                            IF IsClear(wr.calls[k].value) THEN {}
                            ELSE {EntryOf(NodeOf(wr.calls[k].field_id), wr.calls[k].value)}

\* C9 witness: the second call of a batch failed after the first was
\* applied, with a row of the batch still to come.
C9_Witness ==
    /\ WriteDone("update_data") /\ wr.ret = Err("Storage", "")
    /\ Len(wr.calls) = 2 /\ wr.calls[1].ok /\ wr.i < Len(wr.rows)

\* C10 (as claimed): when update_data on `items` returns an error the slot
\* holds the snapshot it held before the call.
C10_ErrorKeepsSnapshot ==
    (WriteDone("update_data") /\ wr.ret.kind = "err") => cache = wr.snap

\* C10 (amended): when update_data on `items` returns an error the slot is
\* None: the snapshot taken at the start of the call is not put back.
C10_ErrorLeavesSlotEmpty ==
    (WriteDone("update_data") /\ wr.ret.kind = "err") => (~cache.some /\ wr.snap.some)

\* C10 witness: a batch refused for a read-only column before any call.
C10_Witness ==
    /\ WriteDone("update_data") /\ wr.ret.kind = "err"
    /\ wr.ret.val.error = "readonly column" /\ wr.calls = <<>> /\ ~cache.some

\* The cells (row i of the batch, field j) in batch order, then column order.
CellSeq ==
    LET nf == Len(wr.snap.val.fields)
    IN  [k \in 1..(Len(wr.rows) * nf) |-> [i |-> ((k - 1) \div nf) + 1, j |-> ((k - 1) % nf) + 1]]

\* The cells of cached keys whose new value differs from the cached one.
Differs(cell) ==
    /\ Cached(cell.i)
    /\ ~ValueEq(NewValue(cell.i, cell.j), OrgRow(cell.i)[RESERVED_COLS + cell.j])
DifferingCells == SelectSeq(CellSeq, Differs)

\* C11: a batch returned ok has sent exactly one update call per differing
\* cell of a cached key, in batch order then column order, each call with
\* the cached project id, the row's key and the id of the cell's field, and
\* each answered ok.
C11_OneCallPerChangedCell ==
    (WriteDone("update_data") /\ wr.ret.kind = "ok") =>
        /\ Len(wr.calls) = Len(DifferingCells)
        /\ \A k \in 1..Len(wr.calls) :
              /\ wr.calls[k].ok /\ wr.calls[k].op = "update"
              /\ wr.calls[k].i = DifferingCells[k].i
              /\ wr.calls[k].j = DifferingCells[k].j
              /\ wr.calls[k].project_id = wr.snap.val.project_id
              /\ wr.calls[k].item_id = wr.rows[DifferingCells[k].i].key
              /\ wr.calls[k].field_id = wr.snap.val.fields[DifferingCells[k].j].id

\* C11 witness: a batch of an unchanged row and a row with two changed
\* fields was returned ok after two calls.
C11_Witness ==
    /\ WriteDone("update_data") /\ wr.ret.kind = "ok"
    /\ Len(wr.calls) = 2 /\ Len(wr.rows) = 2
    /\ \E i \in 1..Len(wr.rows) : Cached(i) /\ wr.rows[i].row = OrgRow(i)

\* The column names of a schema, in order.
ColumnNames(schema) == [k \in 1..Len(schema.column_defs) |-> schema.column_defs[k].name]

\* The readers whose fetch_schema was answered.
SchemaAnswered == {r \in Readers : rd[r].pc = "done" /\ rd[r].op = "fetch_schema"
                                    /\ rd[r].ret.kind = "ok"}

\* C12: fetch_schema answers a schema for `items`, `options` and
\* `iterations` and None for every other name; the `items` schema names the
\* cached fields after its reserved columns, the other two are the same
\* whatever the cached fields are.
C12_SchemaPerTable ==
    \A r \in SchemaAnswered :
        LET answer == rd[r].ret.val
        IN  /\ answer.some <=> rd[r].table \in {"items", "options", "iterations"}
            /\ answer.some => answer.val.table_name = rd[r].table
            /\ rd[r].table = "items" =>
                  /\ cache.some
                  /\ SubSeq(ColumnNames(answer.val), RESERVED_COLS + 1,
                            Len(answer.val.column_defs))
                        = [k \in 1..Len(cache.val.fields) |-> cache.val.fields[k].name]
            /\ rd[r].table = "options" =>
                  answer.val.column_defs =
                      << ColumnDef("field_id", "Text", FALSE), ColumnDef("id", "Text", FALSE),
                         ColumnDef("name", "Text", FALSE) >>
            /\ rd[r].table = "iterations" =>
                  /\ ColumnNames(answer.val) =
                        <<"field_id", "id", "title", "start_date", "duration", "is_completed">>
                  /\ [k \in 1..6 |-> answer.val.column_defs[k].data_type] =
                        <<"Text", "Text", "Text", "Text", "Int", "Boolean">>

\* C12 witness: with fields cached, a name that is no table was answered
\* None.
C12_Witness ==
    \E r \in SchemaAnswered :
        /\ rd[r].table = "other" /\ rd[r].ret = Ok(None)
        /\ cache.some /\ cache.val.fields # <<>>

\* C13: the schema of `items`, as computed from any cached field list and
\* as answered by fetch_schema, has 6 + len(fields) columns: id, Repository,
\* Issue, Title, Assignees, Labels, then one nullable text column per field,
\* named after it, in field-list order.
C13_ItemsSchemaShape ==
    cache.some =>
        \A schema \in {items_schema(cache.val)}
                      \cup {rd[r].ret.val.val : r \in {q \in SchemaAnswered : rd[q].table = "items"}} :
            /\ Len(schema.column_defs) = 6 + Len(cache.val.fields)
            /\ SubSeq(ColumnNames(schema), 1, 6) =
                  <<"id", "Repository", "Issue", "Title", "Assignees", "Labels">>
            /\ \A k \in 1..Len(cache.val.fields) :
                  schema.column_defs[6 + k] = ColumnDef(cache.val.fields[k].name, "Text", TRUE)

\* C13 witness: the schema of a project with a single-select, an iteration
\* and a date field was answered with nine columns.
C13_Witness ==
    \E r \in SchemaAnswered :
        /\ rd[r].table = "items" /\ Len(rd[r].ret.val.val.column_defs) = 9
        /\ {cache.val.fields[k].kind.k : k \in 1..Len(cache.val.fields)}
              = {"SingleSelect", "Iteration", "Normal"}

\* The entries of the remote item `item_id` for the field `field_id`.
\* (While the slot is populated no write has run since the fetch, so the
\* remote item is the one the row was built from.)
EntryTexts(item_id, field_id) ==
    {e.val.val : e \in {x \in RemoteEntries(item_id, field_id) : x.val.some}}

\* The payload members a call may set for a field of that kind.
MembersOf(field) ==
    CASE field.kind.k = "SingleSelect" -> {"single_select_option_id"}
      [] field.kind.k = "Iteration" -> {"iteration_id"}
      [] field.kind.ty = "NUMBER" -> {"number"}
      [] field.kind.ty = "DATE" -> {"date"}
      [] OTHER -> {"text"}

\* C14: every cached row is 6 + len(fields) wide; the cell in column 6 + j
\* shows the remote entry of fields[j] (and Null when there is none), read by
\* the kind of fields[j]; and the update call sent for the cell (i, j) names
\* fields[j].id and sets only the payload member of the kind of fields[j].
C14_PositionalCoupling ==
    /\ cache.some =>
          \A n \in 1..Len(cache.val.items) :
              LET it == cache.val.items[n]
              IN  /\ Len(it.row) = RESERVED_COLS + Len(cache.val.fields)
                  /\ \A j \in 1..Len(cache.val.fields) :
                        LET field == cache.val.fields[j]
                            cell == it.row[RESERVED_COLS + j]
                            texts == EntryTexts(it.key, field.id)
                        IN  IF texts = {} THEN cell = Null
                            ELSE /\ cell.t = (IF field.kind.k = "Normal" /\ field.kind.ty = "NUMBER"
                                              THEN "F64" ELSE "Str")
                                 /\ cell.v \in texts
                                        \cup (IF field.kind.k = "Iteration"
                                              THEN {"Unknown"} ELSE {})
    /\ wr.op = "update_data" /\ wr.snap.some =>
          \A k \in 1..Len(wr.calls) :
              LET call == wr.calls[k]
                  field == wr.snap.val.fields[call.j]
              IN  /\ call.field_id = field.id
                  /\ \A m \in DOMAIN call.value :
                        call.value[m].some => m \in MembersOf(field)

\* C14 witness: the cell of column 8 was read as the Status option "B", and
\* the call sent for it names the second cached field, fS, with an option id.
C14_Witness ==
    /\ wr.op = "update_data" /\ wr.snap.some
    /\ \E k \in 1..Len(wr.calls) :
          /\ wr.calls[k].j = 2 /\ wr.calls[k].field_id = "fS"
          /\ OrgRow(wr.calls[k].i)[8] = Str("B")
          /\ wr.calls[k].value.single_select_option_id.some

\* The readers whose call was answered with the storage error.
FetchRefused == {r \in Readers : /\ rd[r].pc = "done" /\ rd[r].ret.kind = "err"
                                  /\ rd[r].ret.val.error = "Storage"}

\* C15: a population that fails at the list-fields request or at any
\* list-items request answers the call with the storage error in that very
\* step, with the slot None and the lock free; nothing is requested after
\* the failed request; and the next call on the empty slot starts again at
\* the list-fields request.
C15_FailedPopulation ==
    /\ [](\A r \in FetchRefused : ~cache.some /\ lock = "")
    /\ [][\A r \in Readers :
            /\ (rd[r].pc \in Fetching /\ r \in FetchRefused') =>
                  /\ rd[r].pc \in {"list_fields", "scan_items"}
                  /\ rd'[r].ncalls = rd[r].ncalls + 1
                  /\ cache = None /\ cache' = None
            /\ r \in FetchRefused => rd'[r] = RdIdle
            /\ (rd[r].pc = "idle" /\ rd'[r].pc # "idle" /\ ~cache.some) =>
                  /\ rd'[r].pc = "list_fields"
                  /\ rd'[r].ncalls = 0 /\ rd'[r].log = <<>> /\ rd'[r].items = <<>>]_vars

\* C15 witness: the second list-items request of a population failed.
C15_Witness ==
    \E r \in FetchRefused : rd[r].ncalls = 3 /\ ~cache.some

\* C16 (as claimed): when the `gh` process exits with a non-zero status,
\* graphql returns the transport error that names the status, whatever the
\* process wrote to stdout.
C16_NonZeroStatusIsTransportError ==
    (gh.pc = "returned" /\ gh.output.some /\ ~success(gh.output.val.status)
        /\ code(gh.output.val.status).some)
    => (gh.ret.kind = "err" /\ gh.ret.chain = <<"gh exited with status code">>)

\* Position (i, j) of the call k of the batch comes before that of call m.
Before(k, m) ==
    \/ wr.calls[k].i < wr.calls[m].i
    \/ wr.calls[k].i = wr.calls[m].i /\ wr.calls[k].j < wr.calls[m].j

\* C17: within one operation every request is sent once. A population has
\* sent one list-fields request and one list-items request per page it
\* holds; a write has sent at most one call per cell (update) or per key
\* position (delete), in order; and a failed request of either is the last
\* one of its operation, which returns the error in the step that failed.
C17_NoRetry ==
    /\ [](\A r \in Readers :
            /\ rd[r].pc = "list_fields" => rd[r].ncalls = 0
            /\ rd[r].pc \in {"scan_items", "fetched"} => rd[r].ncalls = 1 + Len(rd[r].log))
    /\ [](/\ \A k, m \in 1..Len(wr.calls) : k < m => Before(k, m)
          /\ \A k \in 1..Len(wr.calls) :
                ~wr.calls[k].ok => (k = Len(wr.calls) /\ wr.pc = "done"
                                    /\ wr.ret.kind = "err"))
    /\ [][/\ \A r \in Readers :
               rd'[r].ncalls > rd[r].ncalls =>
                  /\ rd'[r].ncalls = rd[r].ncalls + 1
                  /\ \/ rd'[r].pc = "done" /\ rd'[r].ret.kind = "err"
                     \/ rd'[r].pc = "scan_items" /\ rd[r].pc = "list_fields"
                     \/ Len(rd'[r].log) = Len(rd[r].log) + 1
          /\ Len(wr'.calls) > Len(wr.calls) =>
                /\ Len(wr'.calls) = Len(wr.calls) + 1
                /\ wr'.calls[Len(wr'.calls)].ok \/ wr'.pc = "done"]_vars

\* C17 witness: a delete batch whose second request failed has returned.
C17_Witness ==
    /\ WriteDone("delete_data") /\ wr.ret.kind = "err"
    /\ Len(wr.calls) = 2 /\ wr.calls[1].ok /\ ~wr.calls[2].ok

\* The readers whose scan_data was answered with rows.
Scanned == {r \in Readers : rd[r].pc = "done" /\ rd[r].op = "scan_data"
                             /\ rd[r].ret.kind = "ok"}

\* The rows a table has for a cached snapshot, written field by field.
OptionRowsOf(field) ==
    IF field.kind.k # "SingleSelect" THEN <<>>
    ELSE [n \in 1..Len(field.kind.options) |->
            [key |-> field.kind.options[n].id,
             row |-> <<Str(field.id), Str(field.kind.options[n].id),
                       Str(field.kind.options[n].name)>>]]
IterationKeysOf(field) ==
    IF field.kind.k # "Iteration" THEN <<>>
    ELSE [n \in 1..Len(field.kind.iterations) |-> field.kind.iterations[n].id]
         \o [n \in 1..Len(field.kind.completed_iterations) |->
                field.kind.completed_iterations[n].id]

\* C18: what scan_data answers is determined by the cached snapshot and the
\* table name alone, rows and order, so two scans over an unchanged cache
\* are answered the same; and no scan, hit or miss answered, changes a
\* populated cache.
C18_ScanIdempotent ==
    /\ [](\A r \in Scanned :
            /\ cache.some
            /\ rd[r].table = "items" => rd[r].ret.val = cache.val.items
            /\ rd[r].table = "options" =>
                  rd[r].ret.val =
                      Concat([k \in 1..Len(cache.val.fields) |-> OptionRowsOf(cache.val.fields[k])])
            /\ rd[r].table = "iterations" =>
                  [n \in 1..Len(rd[r].ret.val) |-> rd[r].ret.val[n].key] =
                      Concat([k \in 1..Len(cache.val.fields) |->
                                 IterationKeysOf(cache.val.fields[k])]))
    /\ [][cache.some /\ wr.pc = "idle" /\ wr'.pc = "idle" => cache' = cache]_vars

\* C18 witness: a scan of `options` answered from the populated cache,
\* without any request, with the rows of the three options.
C18_Witness ==
    \E r \in Scanned :
        rd[r].table = "options" /\ rd[r].ncalls = 0 /\ Len(rd[r].ret.val) = 3

\* C19: in every cached row, the cell of a field for which the item has no
\* field-value entry is Null, for a field of any kind.
C19_NoEntryIsNull ==
    cache.some =>
        \A n \in 1..Len(cache.val.items) : \A j \in 1..Len(cache.val.fields) :
            RemoteEntries(cache.val.items[n].key, cache.val.fields[j].id) = {}
                => cache.val.items[n].row[RESERVED_COLS + j] = Null

\* C19 witness: one cached item has no entry for the iteration field and a
\* Null cell, while another item shows an iteration in the same column.
C19_Witness ==
    /\ cache.some
    /\ \E j \in 1..Len(cache.val.fields) : \E n, m \in 1..Len(cache.val.items) :
          /\ cache.val.fields[j].kind.k = "Iteration"
          /\ RemoteEntries(cache.val.items[n].key, cache.val.fields[j].id) = {}
          /\ cache.val.items[n].row[RESERVED_COLS + j] = Null
          /\ cache.val.items[m].row[RESERVED_COLS + j] = Str("S1")

\* The part C20 and its amended form share: a statement that fails is
\* reported by a call of readline() that leaves the loop reading, and an
\* interrupt empties both buffers, leaves the loop reading and does nothing
\* else.
FailedStatementGoesOn ==
    [][/\ prompt'.last \in {"Syntax Error", "SQL execution error"} =>
              (prompt'.pc = "reading" /\ prompt'.ret = "")
       /\ (prompt.pc = "reading" /\ prompt'.last = "interrupted") =>
              prompt' = [prompt EXCEPT !.input_buf = <<>>, !.tokens_buf = <<>>,
                                       !.last = "interrupted"]]_vars

C21_LoopEndsWithTheListing ==
    /\ \A r \in Readers :
          (rd[r].pc = "scan_items" /\ ~remote.endless) ~> (rd[r].pc # "scan_items")
    /\ [][\A r \in Readers :
            (rd[r].pc = "scan_items" /\ remote.endless)
                => (rd'[r].pc = "scan_items" /\ lock' = r /\ ~cache'.some)]_vars
    /\ [][\A r \in Readers :
            (rd[r].pc = "scan_items" /\ rd'[r].pc = "fetched")
                => ~GoesOn(rd'[r].log[Len(rd'[r].log)])]_vars

\* C21 witness: the endless remote has answered more than MaxPages pages and
\* the reader is still in the loop, holding the lock.
C21_Witness ==
    \E r \in Readers :
        /\ remote.endless /\ rd[r].pc = "scan_items" /\ rd[r].ncalls = MaxPages + 2
        /\ lock = r /\ ~cache.some

\* C22: from the drop of the guard to its return a write on `items` does not
\* hold the lock and the slot is None; every remote update or delete call
\* is sent in that stretch, after the snapshot was taken out of the slot.
C22_DrainedAndUnlockedBeforeCalls ==
    /\ [](wr.pc = "run" => (lock # "w" /\ ~cache.some /\ wr.snap.some))
    /\ [][Len(wr'.calls) > Len(wr.calls)
            => /\ wr.pc = "run" /\ wr.table = "items"
               /\ lock # "w" /\ ~cache.some
               /\ lock' # "w" /\ ~cache'.some]_vars
    /\ [](wr.pc = "taken" => (lock = "w" /\ wr.calls = <<>> /\ ~cache.some))

\* C22 witness: a delete batch has sent its first call and has a key to go.
C22_Witness ==
    /\ wr.pc = "run" /\ wr.op = "delete_data" /\ Len(wr.calls) = 1 /\ wr.i <= Len(wr.rows)
    /\ lock = "" /\ ~cache.some

\* C23 (as claimed): while a write on `items` is between its drain of the
\* slot and its return, a reader can start a call on the adapter.
C23_ReaderCanStartMidWrite ==
    wr.pc = "run" => \E r \in Readers : ENABLED ReadMiss(r)

\* C23 (amended): a write on `items` has the adapter to itself from its
\* start to its return: no reader is in a call and none can start one, the
\* slot stays None and is never refilled, and the return leaves it as it is;
\* no write returns with the slot populated.
C23_WriteRunsAlone ==
    /\ [](wr.pc \in {"taken", "run"} =>
            /\ \A r \in Readers : rd[r].pc = "idle"
            /\ \A r \in Readers : ~ENABLED ReadMiss(r) /\ ~ENABLED ReadHit(r)
            /\ ~cache.some)
    /\ []((wr.pc = "done" /\ wr.table = "items") => ~cache.some)
    /\ [][wr.pc = "done" => cache' = cache]_vars

\* C23 witness: an update batch has applied a call, has another to send, and
\* the slot is None with both readers idle.
C23_Witness ==
    /\ wr.pc = "run" /\ wr.op = "update_data"
    /\ Len(wr.calls) = 1 /\ wr.calls[1].ok
    /\ Advance(wr.snap.val, wr.rows, wr.i, wr.j).kind = "call"
    /\ ~cache.some /\ \A r \in Readers : rd[r].pc = "idle"

\* C24: a row of an update batch whose key has no cached row gets no call
\* and no error, and does not end the batch: every differing cell of a
\* cached key that comes after it has got its call when update_data returns,
\* unless the batch was stopped, by an error, at a cached row up to that cell.
C24_UnknownKeySkipped ==
    (wr.op = "update_data" /\ wr.snap.some) =>
        /\ \A k \in 1..Len(wr.calls) : Cached(wr.calls[k].i)
        /\ (wr.pc = "done" /\ wr.ret.kind = "err") =>
              (wr.i \in 1..Len(wr.rows) /\ Cached(wr.i))
        /\ wr.pc = "done" =>
              \A i \in 1..Len(wr.rows) : ~Cached(i) =>
                  \A i2 \in (i + 1)..Len(wr.rows) : \A j \in 1..Len(wr.snap.val.fields) :
                      Differs([i |-> i2, j |-> j]) =>
                          \/ \E k \in 1..Len(wr.calls) :
                                wr.calls[k].i = i2 /\ wr.calls[k].j = j
                          \/ /\ wr.ret.kind = "err"
                             /\ wr.i < i2 \/ (wr.i = i2 /\ wr.j <= j)

\* C24 witness: a batch of an unknown key and then a changed cached row was
\* returned ok after the one call for the second row.
C24_Witness ==
    /\ WriteDone("update_data") /\ wr.ret.kind = "ok"
    /\ Len(wr.rows) = 2 /\ ~Cached(1) /\ Cached(2)
    /\ Len(wr.calls) = 1 /\ wr.calls[1].i = 2

\* A plain field whose type has no SQL type (FieldType::as_sql_type is None).
Unsupported(field) == field.kind.k = "Normal" /\ ~as_sql_type(field.kind.ty).some

\* The cell (i, j) of the batch is one update_data acts on: the key is
\* cached and the new value differs from the cached one.
ChangedCell(i, j) == Differs([i |-> i, j |-> j])

\* The calls the batch has sent for the cell (i, j).
CallsFor(i, j) == {k \in 1..Len(wr.calls) : wr.calls[k].i = i /\ wr.calls[k].j = j}

\* The payload members that are set.
MembersSet(value) == {m \in DOMAIN value : value[m].some}

\* C25 (as claimed): a changed cell of a plain field without a SQL type gets
\* no remote call, and the batch is returned with `readonly column`,
\* whatever the new value is, Null included.
C25_UnsupportedTypeAlwaysRejected ==
    (wr.op = "update_data" /\ wr.snap.some) =>
        \A i \in 1..Len(wr.rows) : \A j \in 1..Len(wr.snap.val.fields) :
            (ChangedCell(i, j) /\ Unsupported(FieldAt(j))) =>
                /\ CallsFor(i, j) = {}
                /\ wr.pc = "done" =>
                      (wr.ret.kind = "err" /\ wr.ret.val.error = "readonly column")

\* C26 (as claimed): the call for a non-null value written to a number field
\* carries the value cast to floating point; a value with no floating-point
\* reading gets no call and the batch is returned with `incompatible data
\* type`.
C26_NumberCastOrError ==
    (wr.op = "update_data" /\ wr.snap.some) =>
        \A i \in 1..Len(wr.rows) : \A j \in 1..Len(wr.snap.val.fields) :
            (ChangedCell(i, j) /\ FieldAt(j).kind.ty = "NUMBER" /\ ~IsNull(NewValue(i, j))) =>
                IF CastFloat(NewValue(i, j)).some
                THEN \A k \in CallsFor(i, j) :
                        wr.calls[k].value =
                            [DefaultValue EXCEPT !.number = CastFloat(NewValue(i, j))]
                ELSE /\ CallsFor(i, j) = {}
                     /\ wr.pc = "done" =>
                           (wr.ret.kind = "err"
                            /\ wr.ret.val.error = "IncompatibleDataType")

\* C27 (as claimed): the payload of a call is the clear payload exactly when
\* the new value of its cell is Null; for a non-null value exactly one
\* member is set, the one of the field's kind.
C27_ClearIffNull ==
    (wr.op = "update_data" /\ wr.snap.some) =>
        \A k \in 1..Len(wr.calls) :
            LET call == wr.calls[k]
                new_value == NewValue(call.i, call.j)
            IN  /\ IsClear(call.value) <=> IsNull(new_value)
                /\ ~IsNull(new_value) =>
                      (Cardinality(MembersSet(call.value)) = 1
                       /\ MembersSet(call.value) = MembersOf(FieldAt(call.j)))

\* C28 (as claimed): a call for a non-null value written to a date field
\* carries a native date formatted year-month-day or a text that is a date;
\* any other value gets no call and the batch is returned with
\* `incompatible data type`.
C28_DateOrError ==
    (wr.op = "update_data" /\ wr.snap.some) =>
        \A i \in 1..Len(wr.rows) : \A j \in 1..Len(wr.snap.val.fields) :
            (ChangedCell(i, j) /\ FieldAt(j).kind.ty = "DATE" /\ ~IsNull(NewValue(i, j))) =>
                LET new_value == NewValue(i, j)
                    date == CASE new_value.t = "Date" -> Some(FormatYmd[new_value.v])
                              [] new_value.t = "Str" /\ new_value.v \in ValidDates
                                    -> Some(new_value.v)
                              [] OTHER -> None
                IN  IF date.some
                    THEN \A k \in CallsFor(i, j) :
                            wr.calls[k].value = [DefaultValue EXCEPT !.date = date]
                    ELSE /\ CallsFor(i, j) = {}
                         /\ wr.pc = "done" =>
                               (wr.ret.kind = "err"
                                /\ wr.ret.val.error = "IncompatibleDataType")

\* The ids and the titles of the iterations of a field.
IterationIds(field) ==
    {(field.kind.iterations \o field.kind.completed_iterations)[k].id :
        k \in 1..Len(field.kind.iterations \o field.kind.completed_iterations)}
IterationTitles(field) ==
    {(field.kind.iterations \o field.kind.completed_iterations)[k].title :
        k \in 1..Len(field.kind.iterations \o field.kind.completed_iterations)}

\* C29: a non-null value written to an iteration field is never refused by
\* update_data: once the batch has got to the cell, its call has been sent,
\* with the text of the value as the iteration id and nothing else set,
\* whether or not that text is the id of an iteration of the field; a title
\* the read path shows is sent as it is, not as the id of its iteration.
C29_IterationTextSentAsId ==
    (wr.op = "update_data" /\ wr.snap.some) =>
        \A i \in 1..Len(wr.rows) : \A j \in 1..Len(wr.snap.val.fields) :
            (ChangedCell(i, j) /\ FieldAt(j).kind.k = "Iteration" /\ ~IsNull(NewValue(i, j))) =>
                /\ \A k \in CallsFor(i, j) :
                      wr.calls[k].value =
                          [DefaultValue EXCEPT !.iteration_id = Some(ToStr(NewValue(i, j)))]
                /\ wr.pc = "done" =>
                      /\ Cardinality(CallsFor(i, j)) = 1
                      /\ wr.ret.kind = "err" => wr.ret.val.error = "Storage"

\* C29 witness: the title "S1" of the iteration s1 was written to a cell
\* that showed "S2", and the call carried "S1" as the iteration id.
C29_Witness ==
    /\ WriteDone("update_data") /\ Len(wr.calls) = 1
    /\ FieldAt(wr.calls[1].j).kind.k = "Iteration"
    /\ OrgRow(1)[RESERVED_COLS + wr.calls[1].j] = Str("S2")
    /\ wr.calls[1].value.iteration_id = Some("S1")
    /\ "S1" \in IterationTitles(FieldAt(wr.calls[1].j))
    /\ "S1" \notin IterationIds(FieldAt(wr.calls[1].j))


\* The ids of the items the remote holds.
RemoteItemIds == {remote.items[k].id : k \in 1..Len(remote.items)}

\* C30: delete_data on items sends one delete-item call per key of the
\* batch, in batch order, for cached and uncached keys alike, with the
\* project id of the snapshot; a failed call is the last one, the batch
\* returns its Storage error with the remaining keys unsent, and the items
\* deleted by the calls before it stay deleted; the batch returns ok only
\* after a call for every key.
C30_DeletePerKeyInOrder ==
    /\ []((wr.op = "delete_data" /\ wr.table = "items" /\ wr.pc \in {"run", "done"}) =>
            /\ Len(wr.calls) <= Len(wr.rows)
            /\ \A k \in 1..Len(wr.calls) :
                  /\ wr.calls[k].op = "delete"
                  /\ wr.calls[k].item_id = wr.rows[k].key
                  /\ wr.calls[k].project_id = wr.snap.val.project_id
                  /\ (k < Len(wr.calls) => wr.calls[k].ok)
                  /\ (wr.calls[k].ok => wr.calls[k].item_id \notin RemoteItemIds)
            /\ (wr.pc = "run" => (wr.i = Len(wr.calls) + 1
                                  /\ \A k \in 1..Len(wr.calls) : wr.calls[k].ok))
            /\ (wr.pc = "done" /\ wr.ret.kind = "ok" =>
                  (Len(wr.calls) = Len(wr.rows)
                   /\ \A k \in 1..Len(wr.calls) : wr.calls[k].ok))
            /\ (wr.pc = "done" /\ wr.ret.kind = "err" =>
                  /\ wr.ret = Err("Storage", "")
                  /\ Len(wr.calls) >= 1 /\ ~wr.calls[Len(wr.calls)].ok
                  /\ wr.i = Len(wr.calls)))
    /\ [][(wr.op = "delete_data" /\ wr'.op = "delete_data"
            /\ Len(wr'.calls) > Len(wr.calls)) =>
             /\ Len(wr'.calls) = Len(wr.calls) + 1
             /\ (~wr'.calls[Len(wr'.calls)].ok => (remote' = remote /\ wr'.pc = "done"))
             /\ RemoteItemIds' = RemoteItemIds \ {wr'.calls[Len(wr'.calls)].item_id}
                   \/ ~wr'.calls[Len(wr'.calls)].ok]_vars

\* C30 witness: a batch of two keys has returned the error of its second
\* call; the first call deleted an item the remote held, which is still
\* gone, and the failed call was for a key that is not in the snapshot.
C30_Witness ==
    /\ WriteDone("delete_data") /\ wr.ret = Err("Storage", "")
    /\ Len(wr.rows) = 2 /\ Len(wr.calls) = 2
    /\ wr.calls[1].ok /\ FindItem(wr.snap.val.items, wr.calls[1].item_id) # 0
    /\ wr.calls[1].item_id \notin RemoteItemIds
    /\ ~wr.calls[2].ok /\ FindItem(wr.snap.val.items, wr.calls[2].item_id) = 0


\* C31 (as claimed): the cell of a SingleSelect field whose entry reports a
\* name shows that name when it is the name of an option of the field, and
\* the text Unknown when it is the name of none.
C31_SingleSelectNameOrUnknown ==
    cache.some =>
        \A n \in 1..Len(cache.val.items) : \A j \in 1..Len(cache.val.fields) :
            LET field == cache.val.fields[j]
            IN  field.kind.k = "SingleSelect" =>
                  \A t \in EntryTexts(cache.val.items[n].key, field.id) :
                      cache.val.items[n].row[RESERVED_COLS + j]
                         = (IF t \in OptionNames(field) THEN Str(t) ELSE Str("Unknown"))

\* The titles of the active and completed iterations of a cached field.
KnownTitles(field) ==
    {field.kind.iterations[k].title : k \in 1..Len(field.kind.iterations)}
       \cup {field.kind.completed_iterations[k].title :
                k \in 1..Len(field.kind.completed_iterations)}

\* C32: the cell of an Iteration field for an item that has an entry for the
\* field shows the entry's title when an active or completed iteration of
\* the field has that title, and the text Unknown otherwise; it is not Null.
C32_IterationTitleOrUnknown ==
    cache.some =>
        \A n \in 1..Len(cache.val.items) : \A j \in 1..Len(cache.val.fields) :
            LET field == cache.val.fields[j]
                cell == cache.val.items[n].row[RESERVED_COLS + j]
            IN  (field.kind.k = "Iteration"
                 /\ RemoteEntries(cache.val.items[n].key, field.id) # {}) =>
                  /\ cell # Null
                  /\ \A t \in EntryTexts(cache.val.items[n].key, field.id) :
                        cell = (IF t \in KnownTitles(field) THEN Str(t) ELSE Str("Unknown"))

\* C32 witness: a populated cache shows Unknown for the entry titled S9,
\* which no iteration of the field has, and S1 for the entry titled as the
\* completed iteration.
C32_Witness ==
    /\ cache.some
    /\ \E j \in 1..Len(cache.val.fields) : \E n, m \in 1..Len(cache.val.items) :
          /\ cache.val.fields[j].kind.k = "Iteration"
          /\ EntryTexts(cache.val.items[n].key, cache.val.fields[j].id) = {"S9"}
          /\ cache.val.items[n].row[RESERVED_COLS + j] = Str("Unknown")
          /\ EntryTexts(cache.val.items[m].key, cache.val.fields[j].id) = {"S1"}
          /\ cache.val.items[m].row[RESERVED_COLS + j] = Str("S1")


\* The item of the list-items response a cached row was made from.
RemoteItem(key) ==
    CHOOSE it \in {remote.items[n] : n \in 1..Len(remote.items)} : it.id = key

\* C33 (as claimed): every cached row is keyed by its item id and shows it
\* in column id; without content Repository, Issue, Assignees and Labels are
\* Null and Title is the empty text; with content none of Repository, Issue,
\* Assignees and Labels is Null and Title is the content's title.
C33_ContentColumnsPopulated ==
    cache.some =>
        \A n \in 1..Len(cache.val.items) :
            LET row == cache.val.items[n].row
                item == RemoteItem(cache.val.items[n].key)
            IN  /\ row[1] = Str(cache.val.items[n].key)
                /\ IF ~item.content.some
                   THEN row[2] = Null /\ row[3] = Null /\ row[4] = Str("")
                        /\ row[5] = Null /\ row[6] = Null
                   ELSE row[2] # Null /\ row[3] # Null
                        /\ row[4] = Str(item.content.val.title)
                        /\ row[5] # Null /\ row[6] # Null

\* C33 (amended): every cached row is keyed by its item id and shows it in
\* column id. Without content the other reserved columns are Null and Title
\* is the empty text. An issue or pull request gives its repository, number,
\* title, assignee logins and label names. A draft issue gives its title and
\* assignee logins, with Repository and Issue Null and Labels the empty list.
C33_ReservedColumnsByContent ==
    cache.some =>
        \A n \in 1..Len(cache.val.items) :
            LET row == cache.val.items[n].row
                item == RemoteItem(cache.val.items[n].key)
                content == item.content.val
            IN  /\ row[1] = Str(cache.val.items[n].key)
                /\ IF ~item.content.some
                   THEN <<row[2], row[3], row[4], row[5], row[6]>>
                           = <<Null, Null, Str(""), Null, Null>>
                   ELSE IF content.variant = "DraftIssue"
                   THEN <<row[2], row[3], row[4], row[5], row[6]>>
                           = <<Null, Null, Str(content.title), List(content.assignees), List("")>>
                   ELSE <<row[2], row[3], row[4], row[5], row[6]>>
                           = <<Str(content.repo), I64(content.number), Str(content.title),
                               List(content.assignees), List(content.labels)>>

\* C33 witness: the cache holds the row of an item without content, of an
\* issue and of a draft issue.
C33_Witness ==
    /\ cache.some
    /\ \E a, b, c \in 1..Len(cache.val.items) :
          /\ ~RemoteItem(cache.val.items[a].key).content.some
          /\ cache.val.items[a].row[4] = Str("")
          /\ RemoteItem(cache.val.items[b].key).content.some
          /\ RemoteItem(cache.val.items[b].key).content.val.variant = "Issue"
          /\ cache.val.items[b].row[3] = I64("1")
          /\ RemoteItem(cache.val.items[c].key).content.some
          /\ RemoteItem(cache.val.items[c].key).content.val.variant = "DraftIssue"
          /\ cache.val.items[c].row[5] = List("bob")


\* The column names of the items schema of a cached field list.
ItemsColumnNames(c) ==
    [k \in 1..Len(items_schema(c).column_defs) |-> items_schema(c).column_defs[k].name]

\* C34 (as claimed): no cached field is named as a reserved column, and no
\* two columns of the items schema have the same name.
C34_NoReservedFieldName ==
    cache.some =>
        /\ \A j \in 1..Len(cache.val.fields) : cache.val.fields[j].name \notin ReservedNames
        /\ \A a, b \in 1..Len(ItemsColumnNames(cache.val)) :
              a # b => ItemsColumnNames(cache.val)[a] # ItemsColumnNames(cache.val)[b]


\* The places of the rows of the two derived tables: <<j, n>> is option n of
\* the SingleSelect field j; <<j, c, n>> is entry n of the iterations (c = 0)
\* or of the completed iterations (c = 1) of the Iteration field j.
OptionSlots(fields) ==
    {<<j, n>> \in (1..Len(fields)) \X (1..3) :
        fields[j].kind.k = "SingleSelect" /\ n <= Len(fields[j].kind.options)}
IterationSlots(fields) ==
    {<<j, c, n>> \in (1..Len(fields)) \X {0, 1} \X (1..3) :
        /\ fields[j].kind.k = "Iteration"
        /\ n <= Len(IF c = 0 THEN fields[j].kind.iterations
                    ELSE fields[j].kind.completed_iterations)}

\* The number of slots up to and including a slot, in field order, active
\* before completed, list order.
OptionRank(fields, slot) ==
    Cardinality({t \in OptionSlots(fields) :
                    t[1] < slot[1] \/ (t[1] = slot[1] /\ t[2] <= slot[2])})
IterationRank(fields, slot) ==
    Cardinality({t \in IterationSlots(fields) :
                    \/ t[1] < slot[1]
                    \/ t[1] = slot[1] /\ t[2] < slot[2]
                    \/ t[1] = slot[1] /\ t[2] = slot[2] /\ t[3] <= slot[3]})

\* C35: a scan of options answers, from the field list cached at the time
\* of the call, one row (field id, option id, name) keyed by the option id
\* per option of every SingleSelect field; a scan of iterations one row
\* keyed by the iteration id per iteration of every Iteration field, with
\* is_completed false for the entries of iterations and true for those of
\* completed_iterations; rows come in field order, active before completed,
\* and the fields of other kinds give no row.
C35_DerivedTables ==
    \A r \in Scanned :
        /\ cache.some
        /\ rd[r].table = "options" =>
              LET fields == cache.val.fields
                  rows == rd[r].ret.val
              IN  /\ Len(rows) = Cardinality(OptionSlots(fields))
                  /\ \A slot \in OptionSlots(fields) :
                        LET opt == fields[slot[1]].kind.options[slot[2]]
                            got == rows[OptionRank(fields, slot)]
                        IN  /\ got.key = opt.id
                            /\ got.row = <<Str(fields[slot[1]].id), Str(opt.id), Str(opt.name)>>
        /\ rd[r].table = "iterations" =>
              LET fields == cache.val.fields
                  rows == rd[r].ret.val
              IN  /\ Len(rows) = Cardinality(IterationSlots(fields))
                  /\ \A slot \in IterationSlots(fields) :
                        LET kind == fields[slot[1]].kind
                            iter == IF slot[2] = 0 THEN kind.iterations[slot[3]]
                                    ELSE kind.completed_iterations[slot[3]]
                            got == rows[IterationRank(fields, slot)]
                        IN  /\ got.key = iter.id
                            /\ got.row = <<Str(fields[slot[1]].id), Str(iter.id), Str(iter.title),
                                           Str(iter.start_date), I64(iter.duration),
                                           [t |-> "Bool",
                                            v |-> IF slot[2] = 0 THEN "false" ELSE "true"]>>

\* C35 witness: over a cache whose first and last fields are not iteration
\* fields, a scan of iterations was answered with the active iteration s2,
\* marked not completed, before the completed iteration s1.
C35_Witness ==
    \E r \in Scanned :
        /\ rd[r].table = "iterations" /\ cache.some /\ Len(cache.val.fields) = 3
        /\ cache.val.fields[1].kind.k = "SingleSelect"
        /\ cache.val.fields[3].kind.k = "Normal"
        /\ Len(rd[r].ret.val) = 2
        /\ rd[r].ret.val[1].key = "s2" /\ rd[r].ret.val[1].row[6].v = "false"
        /\ rd[r].ret.val[2].key = "s1" /\ rd[r].ret.val[2].row[6].v = "true"


\* The set of the elements of a sequence.
Range(seq) == {seq[k] : k \in 1..Len(seq)}

\* C36 (as claimed): when the body the remote answered decodes as an error
\* list that is not empty, the operation that sent the request fails, and
\* its error carries every remote message; for the four requests alike,
\* whether or not the body also carries data that decodes.
C36_ErrorListFailsOperation ==
    (/\ gh.pc = "handled" /\ gh.output.some
     /\ code(gh.output.val.status).some
     /\ ErrResp(gh.output.val.stdout).some
     /\ ErrResp(gh.output.val.stdout).val # <<>>)
    => (/\ gh.result.kind = "err"
        /\ Range(ErrResp(gh.output.val.stdout).val) \subseteq Range(gh.result.msgs))


\* C37: when graphql has the output of a process that exited with a code and
\* the body does not decode as data, it returns an error and no response.
\* The innermost context of the error is the decode failure; when the body
\* decodes as an error list the context above it is the messages of the list
\* in order, joined, and otherwise it is the failure to decode an error list.
C37_DecodeFailureIsError ==
    (/\ gh.pc \in {"returned", "handled"} /\ gh.output.some
     /\ code(gh.output.val.status).some
     /\ ~DataResp(gh.output.val.stdout).some)
    => LET chain == gh.ret.chain
           body == gh.output.val.stdout
       IN  /\ gh.ret.kind = "err" /\ gh.ret.data = "" /\ gh.ret.errors = <<>>
           /\ Len(chain) >= 2
           /\ chain[Len(chain)] = "Failed to parse response"
           /\ IF body.json
              THEN SubSeq(chain, 1, Len(chain) - 1) = error_msgs(body.errors)
              ELSE SubSeq(chain, 1, Len(chain) - 1) = <<"Failed to parse error response">>

\* C37 witness: graphql has returned for a body whose data is null and whose
\* error list holds m1 and m2: an error with both messages, in order, above
\* the decode failure.
C37_Witness ==
    /\ gh.pc = "returned" /\ gh.output.some
    /\ gh.output.val.stdout = Body(TRUE, "null", <<"m1", "m2">>)
    /\ gh.ret.kind = "err"
    /\ gh.ret.chain = <<"error_msgs", "m1", "m2", "Failed to parse response">>


\* C38 (as claimed): while a write on items is between its take and its
\* return, a second write can start on the adapter and reach the unwrap
\* with the slot empty.
C38_SecondWriterReachesUnwrap ==
    (wr.pc \in {"taken", "run"} /\ wr.table = "items") => ENABLED WritePanic

\* C38 (amended): the slot is empty at construction, is filled only by the
\* step that completes a successful fetch_schema or scan_data, and is
\* emptied only by the take of a write on items; a failed population leaves
\* it empty. A write on items that starts with the slot filled takes the
\* snapshot and goes on to return ok or an error; one that starts with the
\* slot empty panics at the unwrap. No write starts while another runs.
C38_PopulatedIffReadSinceWrite ==
    /\ [](\A r \in Readers : (rd[r].pc = "done" /\ rd[r].ret.kind = "ok") => cache.some)
    /\ []((wr.pc \in {"taken", "run", "done"} /\ wr.table = "items") => ~cache.some)
    /\ [](wr.pc = "panicked" => (~cache.some /\ wr.table = "items" /\ wr.calls = <<>>))
    /\ [][/\ (~cache.some /\ cache'.some) =>
               \E r \in Readers : /\ rd[r].pc = "fetched"
                                  /\ rd'[r].pc = "done" /\ rd'[r].ret.kind = "ok"
          /\ (cache.some /\ ~cache'.some) =>
               (wr.pc = "idle" /\ wr'.pc = "taken" /\ wr'.table = "items")
          /\ (\E r \in Readers : rd[r].pc # "done" /\ rd'[r].pc = "done"
                                  /\ rd'[r].ret.kind = "err") =>
               (~cache.some /\ ~cache'.some)
          /\ (wr.pc = "idle" /\ wr'.pc # "idle" /\ wr'.table = "items") =>
               IF cache.some THEN wr'.pc = "taken" ELSE wr'.pc = "panicked"
          /\ wr.pc \in {"taken", "run"} =>
               (wr'.pc \in {"taken", "run", "done"} /\ wr'.op = wr.op)
          /\ wr.pc = "done" => wr'.pc \in {"done", "idle"}
          /\ wr.pc = "panicked" => wr' = wr]_vars

\* C38 witness: a write on items has panicked at the unwrap after an earlier
\* write changed the remote items, with no population since.
C38_Witness ==
    /\ wr.pc = "panicked" /\ wr.table = "items" /\ ~cache.some
    /\ remote.items # InitialItems
    /\ \A r \in Readers : rd[r].pc = "idle"

====
